---- MODULE Spec2Model ----
(***************************************************************************)
(* State-machine model of the monitoring / insight subsystem of            *)
(* youtube-mcp-server: the memory store (src/src/memory/store.ts), the     *)
(* orchestrator (src/src/agents/orchestrator.ts), the four agents and the  *)
(* heartbeat (src/src/heartbeat.ts).                                       *)
(*                                                                         *)
(* The process is single threaded.  An async function runs until its next  *)
(* await; between two awaits of one call, steps of other calls may run.    *)
(* Every call in flight is a task: a record holding the position of the    *)
(* call (pc) and its local variables.  One action models one stretch of    *)
(* code between two awaits.  A load-mutate-save helper has two stretches:  *)
(* the read of the file and the continuation that mutates the loaded state *)
(* and writes it (..Save).  A call does nothing to the shared state before *)
(* its first read, so the Call.. action of a helper includes that read;    *)
(* a read that follows an earlier await of the same call is an action of   *)
(* its own (..Load).                                                       *)
(***************************************************************************)
EXTENDS Integers, Sequences, FiniteSets, TLC

VARIABLES
    fileExists,         \* existsSync(getStorePath())
    file,               \* parsed content of the state file (MemoryState), or Corrupt
    writable,           \* whether writeFile on the store path succeeds
    defaultState,       \* content of the module's DEFAULT_STATE object
    clock,              \* Date.now(), in clock ticks
    heartbeatInterval,  \* heartbeat.ts: 0 is null, else the handle of a timer (its minutes)
    timers,             \* the interval timers the runtime holds armed (their minutes)
    tasks,              \* the calls in flight, one per slot
    budget              \* number of calls the behaviour may still start

vars == <<fileExists, file, writable, defaultState, clock, heartbeatInterval, timers, tasks,
          budget>>

(***************************************************************************)
(* Bounds of the model                                                     *)
(***************************************************************************)
MaxTasks == 2       \* calls that may be in flight together
MaxStarted == 3     \* calls started in one behaviour of Spec
MaxClock == 1       \* last value of the clock

Slots == 1..MaxTasks

(***************************************************************************)
(* Sequence helpers (Array.prototype)                                      *)
(***************************************************************************)
\* Array.prototype.slice(-k) for k >= 1: the last k elements, all when k >= length
SliceLast(s, k) ==
    IF k >= Len(s) THEN s ELSE SubSeq(s, Len(s) - k + 1, Len(s))

\* Array.prototype.slice(0, k)
SliceFirst(s, k) ==
    IF k >= Len(s) THEN s ELSE SubSeq(s, 1, k)

\* Array.prototype.filter
Filter(s, Keep(_)) == SelectSeq(s, Keep)

\* Array.prototype.map
Map(s, F(_)) == [i \in 1..Len(s) |-> F(s[i])]

(***************************************************************************)
(* store.ts: types and DEFAULT_STATE                                       *)
(***************************************************************************)
Undefined == "undefined"    \* an absent optional field
Never == -1                 \* MonitorTarget.lastCheckedAt not set

ProfileFields == {"industry", "competitors", "keywords", "trackedChannels", "notes"}

\* the clock value at module load (new Date() in DEFAULT_STATE)
LoadTime == 0

DEFAULT_STATE ==
    [user |-> [industry |-> Undefined, competitors |-> <<>>, keywords |-> <<>>,
               trackedChannels |-> <<>>, notes |-> <<>>, updatedAt |-> LoadTime],
     monitors |-> <<>>,
     insights |-> <<>>,
     conversations |-> <<>>]

MAX_INSIGHTS == 500
MAX_CONVERSATIONS == 200

\* a state file whose content JSON.parse rejects
Corrupt == [unparsed |-> "{ not json"]

\* loadMemory throws: the file exists and does not parse
LoadThrows == fileExists /\ "unparsed" \in DOMAIN file

\* loadMemory: the default state when no file exists, else the parsed file
\* objects of type MemoryState: val is the content, shared tells whether the
\* object is the module's DEFAULT_STATE object itself
ModuleDefault == [shared |-> TRUE, val |-> defaultState]

\* a slip in loadMemory: the module's object itself is returned
structuredCloneSameObject(obj) == obj

\* structuredClone(obj): a new object with the content of obj
structuredClone(obj) == [shared |-> FALSE, val |-> obj.val]

\* what loadMemory returns when nothing throws
Loaded ==
    IF fileExists THEN [shared |-> FALSE, val |-> file] ELSE structuredClone(ModuleDefault)

loadMemory == Loaded.val

(***************************************************************************)
(* Tasks                                                                   *)
(***************************************************************************)
NoArg == <<>>
NoRet == <<>>

NoUser == DEFAULT_STATE.user
NoResult == [agentId |-> "none", success |-> FALSE, insights |-> <<>>]

\* op: the call; pc: its position; arg: its argument; st: the state it loaded;
\* ret: its return value.  Locals of runAgent / runAllAgents / the tick:
\* agent, params: runAgent's arguments; user: the profile runAllAgents loaded;
\* stage: the agent block runAllAgents is at (1..3, 4 past the last);
\* cur: the result of agent.run; queue: its insights not yet persisted;
\* results: runAllAgents' result list; ext: external calls made so far;
\* ran: the agents whose run was invoked so far.
IdleTask ==
    [op |-> "idle", pc |-> "idle", arg |-> NoArg, st |-> DEFAULT_STATE,
     ret |-> NoRet, agent |-> "none", params |-> <<>>, user |-> NoUser,
     stage |-> 0, cur |-> NoResult, queue |-> <<>>, results |-> <<>>,
     ext |-> 0, ran |-> <<>>, shared |-> FALSE]

NewTask(op, pc, arg) == [IdleTask EXCEPT !.op = op, !.pc = pc, !.arg = arg]

\* the call returns ret; the state it loaded goes out of scope
Done(task, ret) ==
    [task EXCEPT !.pc = "done", !.ret = ret, !.st = DEFAULT_STATE, !.shared = FALSE]

\* the call throws
Threw(task, error) ==
    [task EXCEPT !.pc = "threw", !.ret = error, !.st = DEFAULT_STATE, !.shared = FALSE]

\* a slip in the tick: no try/catch, an error rejects the callback's promise
FailUncaught(task, error) == Threw(task, error)

\* { content: [{ type: "text", text: `Error: ${error.message}` }], isError: true }
ToolError(error) == [isError |-> TRUE, text |-> <<"Error", error>>]

\* an operation of the call throws: the tick callback catches and logs the
\* error and ends; the run_agent handler catches it and replies with an error
\* text; every other call is rejected with it
Fail(task, error) ==
    IF task.op = "tick"
    THEN [task EXCEPT !.pc = "done", !.ret = <<"logged", error>>, !.st = DEFAULT_STATE,
                      !.shared = FALSE]
    ELSE IF task.op = "run_agent"
    THEN [task EXCEPT !.pc = "done", !.ret = ToolError(error), !.st = DEFAULT_STATE,
                      !.shared = FALSE]
    ELSE Threw(task, error)

\* a slip in loadMemory: a file that does not parse is read as the default state
LoadResetsOnError(task) ==
    [task EXCEPT !.st = IF LoadThrows THEN DEFAULT_STATE ELSE loadMemory]

\* const state = await loadMemory()
Load(task) ==
    IF LoadThrows THEN Fail(task, "SyntaxError")
    ELSE [task EXCEPT !.st = loadMemory, !.shared = Loaded.shared]

\* a call starts in the first free slot
CanStart(t) ==
    /\ budget > 0
    /\ tasks[t].pc = "idle"
    /\ \A u \in 1..(t - 1) : tasks[u].pc # "idle"

Start(t, task) ==
    /\ CanStart(t)
    /\ tasks' = [tasks EXCEPT ![t] = task]
    /\ budget' = budget - 1
    /\ UNCHANGED <<fileExists, file, clock, heartbeatInterval, timers, writable, defaultState>>

\* a slip in the write: insights stored since the state was loaded are kept
saveMemoryKeepsInsights(state) ==
    /\ fileExists' = TRUE
    /\ file' = [state EXCEPT !.insights =
                   IF fileExists /\ Len(file.insights) > Len(@) THEN file.insights ELSE @]

\* saveMemory(state): the whole aggregate replaces the file
saveMemory(state) ==
    /\ fileExists' = TRUE
    /\ file' = state

\* the call changes the object it loaded into state, then awaits
\* saveMemory(state): the write succeeds and the call goes on as next, or
\* writeFile throws and the file is as it was
Save(t, state, next) ==
    /\ defaultState' = IF tasks[t].shared THEN state ELSE defaultState
    /\ IF writable
       THEN /\ saveMemory(state)
            /\ tasks' = [tasks EXCEPT ![t] = next]
       ELSE /\ UNCHANGED <<fileExists, file>>
            /\ tasks' = [tasks EXCEPT ![t] = Fail(tasks[t], "EACCES")]

\* the caller takes the result of a finished call; the slot is free again
Return(t) ==
    /\ tasks[t].pc \in {"done", "threw"}
    /\ tasks' = [tasks EXCEPT ![t] = IdleTask]
    /\ UNCHANGED <<fileExists, file, clock, heartbeatInterval, timers, writable, budget, defaultState>>

\* time passes
ClockTick ==
    /\ clock < MaxClock
    /\ clock' = clock + 1
    /\ UNCHANGED <<fileExists, file, heartbeatInterval, timers, writable, tasks, budget, defaultState>>

(***************************************************************************)
(* store.ts: addMonitor                                                    *)
(***************************************************************************)
MonitorTypes == {"channel", "keyword"}
MonitorValues == {"CRM review", "UC123"}

\* a slip in the test of find: the value is compared with the type
MonitorMatchesValueWithType(m, type, value) == m.type = type /\ m.value = type

\* state.monitors.find(m => m.type === type && m.value === value)
MonitorMatches(m, type, value) == m.type = type /\ m.value = value

\* Array.prototype.find: the first element that satisfies Test, else Undefined
Find(s, Test(_)) ==
    LET hits == {i \in 1..Len(s) : Test(s[i])}
    IN IF hits = {} THEN Undefined
       ELSE s[CHOOSE i \in hits : \A j \in hits : i <= j]

\* Array.prototype.some
Some(s, Test(_)) == \E i \in 1..Len(s) : Test(s[i])

\* a slip in the search: only the first stored monitor is compared
HasMonitorFirstOnly(monitors, type, value) ==
    monitors # <<>> /\ MonitorMatches(monitors[1], type, value)

\* whether find returns a monitor
HasMonitor(monitors, type, value) ==
    LET Test(m) == MonitorMatches(m, type, value) IN Some(monitors, Test)

FindMonitor(monitors, type, value) ==
    LET Test(m) == MonitorMatches(m, type, value) IN Find(monitors, Test)

\* `mon_${Date.now()}`
MonitorId(now) == <<"mon", now>>

NewMonitor(type, value, now) ==
    [id |-> MonitorId(now), type |-> type, value |-> value,
     createdAt |-> now, lastCheckedAt |-> Never]

\* const state = await loadMemory(); existing = find(..); if (existing) return existing
CallAddMonitor(t, type, value) ==
    LET state == loadMemory
        task == NewTask("addMonitor", "am_save", [type |-> type, value |-> value])
    IN Start(t, IF LoadThrows THEN Fail(task, "SyntaxError")
                ELSE IF HasMonitor(state.monitors, type, value)
                THEN Done(task, FindMonitor(state.monitors, type, value))
                ELSE [task EXCEPT !.st = state, !.shared = Loaded.shared])

\* state.monitors.push(monitor); await saveMemory(state); return monitor
AddMonitorSave(t) ==
    /\ tasks[t].pc = "am_save"
    /\ LET a == tasks[t].arg
           monitor == NewMonitor(a.type, a.value, clock)
           state == [tasks[t].st EXCEPT !.monitors = Append(@, monitor)]
       IN Save(t, state, Done(tasks[t], monitor))
    /\ UNCHANGED <<clock, heartbeatInterval, timers, writable, budget>>

(***************************************************************************)
(* store.ts: removeMonitor                                                 *)
(***************************************************************************)
\* const state = await loadMemory()
CallRemoveMonitor(t, id) ==
    Start(t, Load(NewTask("removeMonitor", "rm_save", id)))

\* a slip in the removal: when the id is stored, the first monitor is dropped
RemoveMonitorSaveDropsFirst(t) ==
    /\ tasks[t].pc = "rm_save"
    /\ LET id == tasks[t].arg
           before == Len(tasks[t].st.monitors)
           stored == \E i \in 1..before : tasks[t].st.monitors[i].id = id
           state == [tasks[t].st EXCEPT !.monitors = IF stored THEN Tail(@) ELSE @]
       IN Save(t, state, Done(tasks[t], Len(state.monitors) < before))
    /\ UNCHANGED <<clock, heartbeatInterval, timers, writable, budget>>

\* state.monitors = state.monitors.filter(m => m.id !== id); save; return shorter
RemoveMonitorSave(t) ==
    /\ tasks[t].pc = "rm_save"
    /\ LET id == tasks[t].arg
           Keep(m) == m.id # id
           before == Len(tasks[t].st.monitors)
           state == [tasks[t].st EXCEPT !.monitors = Filter(@, Keep)]
       IN Save(t, state, Done(tasks[t], Len(state.monitors) < before))
    /\ UNCHANGED <<clock, heartbeatInterval, timers, writable, budget>>

(***************************************************************************)
(* store.ts: updateUser, and index.ts: the configure_user handler          *)
(***************************************************************************)
\* a slip in the merge: a supplied keywords list is appended to the stored one
MergeUserAppendsKeywords(user, updates, now) ==
    [f \in DOMAIN user |->
        IF f = "updatedAt" THEN now
        ELSE IF f \in DOMAIN updates
             THEN (IF f = "keywords" THEN user[f] \o updates[f] ELSE updates[f])
        ELSE user[f]]

\* { ...state.user, ...updates, updatedAt: new Date().toISOString() }
\* updates is a function whose domain is the set of keys it carries
MergeUser(user, updates, now) ==
    [f \in DOMAIN user |->
        IF f = "updatedAt" THEN now
        ELSE IF f \in DOMAIN updates THEN updates[f]
        ELSE user[f]]

\* the profile key a configure_user parameter is stored under
ProfileKey(param) == IF param = "tracked_channels" THEN "trackedChannels" ELSE param

\* the configure_user parameter a profile key comes from
ParamKey(field) == IF field = "trackedChannels" THEN "tracked_channels" ELSE field

\* index.ts: if (params.x !== undefined) updates.x = params.x, for the five fields
ConfigureUpdates(params) ==
    [f \in {ProfileKey(q) : q \in DOMAIN params} |-> params[ParamKey(f)]]

\* the updates object a call hands to updateUser
UpdatesOf(task) ==
    IF task.op = "configure_user" THEN ConfigureUpdates(task.arg) ELSE task.arg

\* const state = await loadMemory()
CallUpdateUser(t, updates) ==
    Start(t, Load(NewTask("updateUser", "uu_save", updates)))

\* the configure_user handler: builds updates, calls updateUser
CallConfigureUser(t, params) ==
    Start(t, Load(NewTask("configure_user", "uu_save", params)))

\* a slip in updateUser: the merged profile is written into a fresh default state
UpdateUserSaveIntoDefaults(t) ==
    /\ tasks[t].pc = "uu_save"
    /\ LET user == MergeUser(tasks[t].st.user, UpdatesOf(tasks[t]), clock)
           state == [DEFAULT_STATE EXCEPT !.user = user]
       IN Save(t, state,
               IF tasks[t].op = "configure_user"
               THEN [tasks[t] EXCEPT !.pc = "ac_load", !.st = state, !.ret = user]
               ELSE Done(tasks[t], user))
    /\ UNCHANGED <<clock, heartbeatInterval, timers, writable, budget>>

\* state.user = {...}; await saveMemory(state); return state.user
\* configure_user goes on to addConversation
UpdateUserSave(t) ==
    /\ tasks[t].pc = "uu_save"
    /\ LET user == MergeUser(tasks[t].st.user, UpdatesOf(tasks[t]), clock)
           state == [tasks[t].st EXCEPT !.user = user]
       IN Save(t, state,
               IF tasks[t].op = "configure_user"
               THEN [tasks[t] EXCEPT !.pc = "ac_load", !.st = state, !.ret = user]
               ELSE Done(tasks[t], user))
    /\ UNCHANGED <<clock, heartbeatInterval, timers, writable, budget>>

(***************************************************************************)
(* store.ts: addConversation                                               *)
(***************************************************************************)
\* results.reduce((sum, r) => sum + r.insights.length, 0)
RECURSIVE TotalInsights(_)
TotalInsights(results) ==
    IF results = <<>> THEN 0
    ELSE Len(Head(results).insights) + TotalInsights(Tail(results))

\* the entry a call hands to addConversation
ConversationOf(task) ==
    IF task.op = "configure_user"
    THEN [role |-> "user", agentId |-> Undefined,
          content |-> <<"Configured profile", task.arg>>]
    ELSE IF task.op = "tick"
    THEN [role |-> "agent", agentId |-> "heartbeat",
          content |-> <<"Heartbeat ran", Len(task.results),
                        TotalInsights(task.results)>>]
    ELSE IF task.op = "run_agent"
    THEN [role |-> "agent", agentId |-> task.agent,
          content |-> <<"summary", Len(task.cur.insights)>>]
    ELSE task.arg

\* a slip in the truncation: the log is cut to 200 only once it is longer than 201
PushConversationCutsLate(conversations, entry, now) ==
    LET pushed == Append(conversations,
                         [role |-> entry.role, agentId |-> entry.agentId,
                          content |-> entry.content, timestamp |-> now])
    IN IF Len(pushed) > MAX_CONVERSATIONS + 1
       THEN SliceLast(pushed, MAX_CONVERSATIONS) ELSE pushed

\* state.conversations.push({...entry, timestamp}); keep the last 200
PushConversation(conversations, entry, now) ==
    LET pushed == Append(conversations,
                         [role |-> entry.role, agentId |-> entry.agentId,
                          content |-> entry.content, timestamp |-> now])
    IN IF Len(pushed) > MAX_CONVERSATIONS
       THEN SliceLast(pushed, MAX_CONVERSATIONS) ELSE pushed

\* const state = await loadMemory()
CallAddConversation(t, entry) ==
    Start(t, Load(NewTask("addConversation", "ac_save", entry)))

\* the same read, when addConversation is called after an earlier await
AddConversationLoad(t) ==
    /\ tasks[t].pc = "ac_load"
    /\ tasks' = [tasks EXCEPT ![t] = Load([@ EXCEPT !.pc = "ac_save"])]
    /\ UNCHANGED <<fileExists, file, clock, heartbeatInterval, timers, writable, budget, defaultState>>

\* push, truncate, await saveMemory(state); the tick goes on to stamp the monitors
AddConversationSave(t) ==
    /\ tasks[t].pc = "ac_save"
    /\ LET state == [tasks[t].st EXCEPT
                        !.conversations =
                            PushConversation(@, ConversationOf(tasks[t]), clock)]
       IN Save(t, state,
               IF tasks[t].op = "tick"
               THEN [tasks[t] EXCEPT !.pc = "hb_load", !.st = state]
               ELSE IF tasks[t].op = "run_agent"
               THEN Done(tasks[t], [isError |-> FALSE, text |-> tasks[t].cur])
               ELSE Done(tasks[t], tasks[t].ret))
    /\ UNCHANGED <<clock, heartbeatInterval, timers, writable, budget>>

(***************************************************************************)
(* store.ts: getInsights                                                   *)
(***************************************************************************)
DEFAULT_LIMIT == 50

\* a slip in the order of the steps: the slice is taken before the filters
QueryInsightsSlicesFirst(insights, filter) ==
    LET ByAgent(i) == i.agentId = filter.agentId
        ByType(i) == i.type = filter.type
        r0 == SliceLast(insights, IF filter.limit # 0 THEN filter.limit ELSE DEFAULT_LIMIT)
        r1 == IF filter.agentId # Undefined /\ filter.agentId # ""
              THEN Filter(r0, ByAgent) ELSE r0
    IN IF filter.type # Undefined /\ filter.type # ""
       THEN Filter(r1, ByType) ELSE r1

\* a filter is [agentId, type, limit]; Undefined is an absent agentId or type,
\* and limit 0 is an absent limit (0 and undefined are both falsy in limit || 50)
QueryInsights(insights, filter) ==
    LET ByAgent(i) == i.agentId = filter.agentId
        ByType(i) == i.type = filter.type
        r1 == IF filter.agentId # Undefined /\ filter.agentId # ""
              THEN Filter(insights, ByAgent) ELSE insights
        r2 == IF filter.type # Undefined /\ filter.type # ""
              THEN Filter(r1, ByType) ELSE r1
    IN SliceLast(r2, IF filter.limit # 0 THEN filter.limit ELSE DEFAULT_LIMIT)

\* const state = await loadMemory(); filter; slice; return results
CallGetInsights(t, filter) ==
    Start(t, IF LoadThrows
             THEN Fail(NewTask("getInsights", "done", filter), "SyntaxError")
             ELSE Done(NewTask("getInsights", "done", filter),
                       QueryInsights(loadMemory.insights, filter)))

(***************************************************************************)
(* The agents.  The external YouTube calls are an oracle: every call made  *)
(* for the i-th item of a list gets one of the outcomes below.             *)
(*   getChannelVideos: "fail" (throws), "old" (no upload inside the        *)
(*     7-day window), "recent" (at least one inside it)                    *)
(*   searchVideos: "fail", "empty" (no video), "videos"                    *)
(*   getVideoComments, lead-qualifier: "fail", "plain" (no comment has a   *)
(*     buying signal), "signal"                                            *)
(*   getVideoComments, sentiment-analyst: "fail", or the set of classes    *)
(*     among negative, request, positive that some comment falls in        *)
(***************************************************************************)
AgentIds == {"competitor-monitor", "sentiment-analyst", "trend-spotter", "lead-qualifier"}

ChannelOutcomes == {"fail", "old", "recent"}
SearchOutcomes == {"fail", "empty", "videos"}
CommentOutcomes == {"fail", "plain", "signal"}
SentimentOutcomes == {{"fail"}} \cup SUBSET {"negative", "request", "positive"}

\* params.x?.length: an absent list counts as empty
ListOr(params, key) == IF key \in DOMAIN params THEN params[key] ELSE <<>>

Indices(n) == [i \in 1..n |-> i]

\* the oracles for one run of an agent
Oracles(agentId, params) ==
    LET nc == IF agentId = "competitor-monitor"
              THEN Len(ListOr(params, "channelIds")) ELSE 0
        nk == IF agentId \in {"competitor-monitor", "trend-spotter", "lead-qualifier"}
              THEN Len(ListOr(params, "keywords")) ELSE 0
        nl == IF agentId = "lead-qualifier" THEN nk ELSE 0
        nv == IF agentId = "lead-qualifier"
              THEN Len(ListOr(params, "videoIds")) ELSE 0
        ns == IF agentId = "sentiment-analyst"
              THEN Len(ListOr(params, "videoIds")) ELSE 0
    IN [chan : [1..nc -> ChannelOutcomes],
        srch : [1..nk -> SearchOutcomes],
        cmts : [1..nl -> CommentOutcomes],
        vid  : [1..nv -> CommentOutcomes],
        sent : [1..ns -> SentimentOutcomes]]

\* for (const x of params.list) throws a TypeError when the list is absent
RunThrows(agentId, params) ==
    \/ agentId \in {"trend-spotter", "lead-qualifier"} /\ "keywords" \notin DOMAIN params
    \/ agentId = "sentiment-analyst" /\ "videoIds" \notin DOMAIN params

Insight(type, what, key) == [type |-> type, title |-> <<what, key>>]

\* competitor-monitor.ts: run
CompetitorMonitorRun(params, o) ==
    LET channelIds == ListOr(params, "channelIds")
        keywords == ListOr(params, "keywords")
        Recent(i) == o.chan[i] = "recent"
        Found(i) == o.srch[i] = "videos"
        OfChannel(i) == Insight("competitor_move", "new videos", channelIds[i])
        OfKeyword(i) == Insight("competitor_move", "videos found", keywords[i])
    IN [agentId |-> "competitor-monitor", success |-> TRUE,
        insights |-> Map(Filter(Indices(Len(channelIds)), Recent), OfChannel)
                     \o Map(Filter(Indices(Len(keywords)), Found), OfKeyword)]

\* a slip in the failure policy: the first failed search ends the loop
TrendSpotterRunStopsAtFailure(params, o) ==
    LET keywords == params["keywords"]
        Reached(i) == \A j \in 1..i : o.srch[j] # "fail"
        OfKeyword(i) == Insight("trend", "trend", keywords[i])
    IN [agentId |-> "trend-spotter", success |-> TRUE,
        insights |-> Map(Filter(Indices(Len(keywords)), Reached), OfKeyword)]

\* trend-spotter.ts: run
TrendSpotterRun(params, o) ==
    LET keywords == params["keywords"]
        Searched(i) == o.srch[i] # "fail"
        OfKeyword(i) == Insight("trend", "trend", keywords[i])
    IN [agentId |-> "trend-spotter", success |-> TRUE,
        insights |-> Map(Filter(Indices(Len(keywords)), Searched), OfKeyword)]

\* lead-qualifier: run
LeadQualifierRun(params, o) ==
    LET keywords == params["keywords"]
        videoIds == ListOr(params, "videoIds")
        TopSignal(i) == o.srch[i] = "videos" /\ o.cmts[i] = "signal"
        VideoSignal(i) == o.vid[i] = "signal"
        OfKeyword(i) == Insight("buying_signal", "buying signals in top video", keywords[i])
        OfVideo(i) == Insight("buying_signal", "buying signals in video", videoIds[i])
    IN [agentId |-> "lead-qualifier", success |-> TRUE,
        insights |-> Map(Filter(Indices(Len(keywords)), TopSignal), OfKeyword)
                     \o Map(Filter(Indices(Len(videoIds)), VideoSignal), OfVideo)]

\* sentiment-analyst.ts: the insights of one video, negatives, requests, positives
SentimentOfVideo(videoId, classes) ==
    (IF "negative" \in classes
     THEN <<Insight("sentiment", "negative comments", videoId)>> ELSE <<>>)
    \o (IF "request" \in classes
        THEN <<Insight("buying_signal", "feature requests", videoId)>> ELSE <<>>)
    \o (IF "positive" \in classes
        THEN <<Insight("sentiment", "positive comments", videoId)>> ELSE <<>>)

RECURSIVE SentimentInsights(_, _, _)
SentimentInsights(videoIds, o, i) ==
    IF i > Len(videoIds) THEN <<>>
    ELSE SentimentOfVideo(videoIds[i], o.sent[i]) \o SentimentInsights(videoIds, o, i + 1)

\* sentiment-analyst.ts: run
SentimentAnalystRun(params, o) ==
    [agentId |-> "sentiment-analyst", success |-> TRUE,
     insights |-> SentimentInsights(params["videoIds"], o, 1)]

\* agent.run(params)
AgentRun(agentId, params, o) ==
    CASE agentId = "competitor-monitor" -> CompetitorMonitorRun(params, o)
      [] agentId = "trend-spotter" -> TrendSpotterRun(params, o)
      [] agentId = "lead-qualifier" -> LeadQualifierRun(params, o)
      [] agentId = "sentiment-analyst" -> SentimentAnalystRun(params, o)

\* the number of external calls one run makes
ExternalCalls(agentId, params, o) ==
    CASE agentId = "competitor-monitor" ->
            Len(ListOr(params, "channelIds")) + Len(ListOr(params, "keywords"))
      [] agentId = "trend-spotter" -> Len(params["keywords"])
      [] agentId = "lead-qualifier" ->
            Len(params["keywords"])
            + Cardinality({i \in DOMAIN o.srch : o.srch[i] = "videos"})
            + Len(ListOr(params, "videoIds"))
      [] agentId = "sentiment-analyst" -> Len(params["videoIds"])

(***************************************************************************)
(* orchestrator.ts: runAgent and runAllAgents                              *)
(***************************************************************************)
\* names every object inherits from Object.prototype
ObjectPrototypeKeys == {"constructor", "toString", "valueOf", "hasOwnProperty", "__proto__"}

\* agents[agentId]: an own property is the agent module, an inherited property
\* is a truthy value that has no run function, any other key is undefined
AgentLookup(agentId) ==
    IF agentId \in AgentIds THEN "agent"
    ELSE IF agentId \in ObjectPrototypeKeys THEN "inherited"
    ELSE "undefined"

\* { agentId, success: false, summary: `Unknown agent: ${agentId}`, insights: [] }
UnknownAgentResult(agentId) ==
    [agentId |-> agentId, success |-> FALSE, insights |-> <<>>]

\* the single result of runAllAgents on a profile that configures nothing
NotConfiguredResult ==
    [agentId |-> "orchestrator", success |-> FALSE, insights |-> <<>>]

\* the agent of each block of runAllAgents, in program order
StageAgent(stage) ==
    CASE stage = 1 -> "competitor-monitor"
      [] stage = 2 -> "trend-spotter"
      [] stage = 3 -> "lead-qualifier"

\* a slip in the third condition: lead-qualifier asks for keywords alone
StageEligibleKeywordsOnly(user, stage) ==
    LET hasChannels == Len(user.trackedChannels) > 0
        hasKeywords == Len(user.keywords) > 0
        hasCompetitors == Len(user.competitors) > 0
    IN CASE stage = 1 -> hasChannels \/ hasCompetitors
         [] stage = 2 -> hasKeywords
         [] stage = 3 -> hasKeywords

\* the condition guarding each block
StageEligible(user, stage) ==
    LET hasChannels == Len(user.trackedChannels) > 0
        hasKeywords == Len(user.keywords) > 0
        hasCompetitors == Len(user.competitors) > 0
    IN CASE stage = 1 -> hasChannels \/ hasCompetitors
         [] stage = 2 -> hasKeywords
         [] stage = 3 -> hasKeywords \/ hasCompetitors

\* `${c} review`
WithReview(c) == c \o " review"

\* a slip in the first block: the competitor names are passed as they are
StageParamsUnsuffixed(user, stage) ==
    CASE stage = 1 -> [channelIds |-> user.trackedChannels,
                       keywords |-> user.competitors]
      [] stage = 2 -> [keywords |-> user.keywords]
      [] stage = 3 -> [keywords |-> user.keywords \o user.competitors]

\* the params each block passes to runAgent
StageParams(user, stage) ==
    CASE stage = 1 -> [channelIds |-> user.trackedChannels,
                       keywords |-> Map(user.competitors, WithReview)]
      [] stage = 2 -> [keywords |-> user.keywords]
      [] stage = 3 -> [keywords |-> user.keywords \o user.competitors]

LastStage == 3

\* the first block after `stage` whose condition holds, LastStage + 1 when none
NextStage(user, stage) ==
    LET later == {k \in (stage + 1)..LastStage : StageEligible(user, k)}
    IN IF later = {} THEN LastStage + 1
       ELSE CHOOSE k \in later : \A j \in later : k <= j

\* a slip in the gating: the early return is never taken
NothingConfiguredNever(user) ==
    /\ Len(user.trackedChannels) < 0
    /\ Len(user.keywords) < 0
    /\ Len(user.competitors) < 0

\* !hasChannels && !hasKeywords && !hasCompetitors
NothingConfigured(user) ==
    /\ Len(user.trackedChannels) = 0
    /\ Len(user.keywords) = 0
    /\ Len(user.competitors) = 0

\* runAllAgents has returned `results`: runAllAgents itself is done, the
\* heartbeat tick goes on to addConversation
AfterRunAll(task, results) ==
    IF task.op = "tick"
    THEN [task EXCEPT !.pc = "ac_load", !.results = results]
    ELSE Done([task EXCEPT !.results = results], results)

\* a slip in the loop of blocks: an agent that comes back without insights
\* ends runAllAgents
AfterRunAgentStopsOnEmpty(task) ==
    IF task.op = "runAgent"
    THEN Done(task, task.cur)
    ELSE IF task.op = "run_agent"
    THEN [task EXCEPT !.pc = "ac_load"]
    ELSE LET results == Append(task.results, task.cur)
             stage == IF task.cur.insights = <<>> THEN LastStage + 1
                      ELSE NextStage(task.user, task.stage)
         IN IF stage <= LastStage
            THEN [task EXCEPT !.pc = "ra_run", !.results = results, !.stage = stage,
                              !.agent = StageAgent(stage),
                              !.params = StageParams(task.user, stage)]
            ELSE AfterRunAll([task EXCEPT !.stage = stage], results)

\* runAgent has persisted every insight and returns task.cur: a runAgent call is
\* done; runAllAgents pushes the result and enters its next block, which runs
\* on to the first external call of the next agent
AfterRunAgent(task) ==
    IF task.op = "runAgent"
    THEN Done(task, task.cur)
    ELSE IF task.op = "run_agent"
    THEN [task EXCEPT !.pc = "ac_load"]
    ELSE LET results == Append(task.results, task.cur)
             stage == NextStage(task.user, task.stage)
         IN IF stage <= LastStage
            THEN [task EXCEPT !.pc = "ra_run", !.results = results, !.stage = stage,
                              !.agent = StageAgent(stage),
                              !.params = StageParams(task.user, stage)]
            ELSE AfterRunAll([task EXCEPT !.stage = stage], results)

\* runAgent up to its first await: the lookup returns the failure result for an
\* unknown id; agent.run is not a function on an inherited value, and an agent
\* throws at once on an absent list; both reject the call; else the agent is
\* at its first external call
RunAgentCalled(task) ==
    LET found == AgentLookup(task.agent)
    IN IF found = "undefined" THEN Done(task, UnknownAgentResult(task.agent))
       ELSE IF found = "inherited" \/ RunThrows(task.agent, task.params)
       THEN Fail(task, "TypeError")
       ELSE [task EXCEPT !.pc = "ra_run"]

CallRunAgent(t, agentId, params) ==
    Start(t, RunAgentCalled([NewTask("runAgent", "ra_run", NoArg) EXCEPT
                                !.agent = agentId, !.params = params]))

\* a slip in the defaults: the competitors are left out of the keywords
DefaultParamsKeywordsOnly(user) ==
    [channelIds |-> user.trackedChannels, keywords |-> user.keywords, videoIds |-> <<>>]

\* { channelIds: state.user.trackedChannels,
\*   keywords: [...state.user.keywords, ...state.user.competitors], videoIds: [] }
DefaultParams(user) ==
    [channelIds |-> user.trackedChannels,
     keywords |-> user.keywords \o user.competitors,
     videoIds |-> <<>>]

\* let agentParams = params.params || {}; the tool input is a record in which
\* the optional params may be absent
GivenParams(input) == IF "params" \in DOMAIN input THEN input.params ELSE <<>>

\* Object.keys(agentParams).length === 0
NoParams(input) == DOMAIN GivenParams(input) = {}

\* the run_agent tool handler up to the first external call of the agent: the
\* profile is loaded only when no params are given
CallRunAgentTool(t, input) ==
    LET task == [NewTask("run_agent", "ra_run", input) EXCEPT !.agent = input.agent_id]
    IN Start(t, IF NoParams(input)
                THEN IF LoadThrows THEN Fail(task, "SyntaxError")
                     ELSE RunAgentCalled([task EXCEPT !.user = loadMemory.user,
                                                      !.params = DefaultParams(loadMemory.user)])
                ELSE RunAgentCalled([task EXCEPT !.params = GivenParams(input)]))

\* agent.run(params) with all its external calls, up to its return (the agent
\* does not touch the store); runAgent then persists the insights
RunAgentRun(t) ==
    /\ tasks[t].pc = "ra_run"
    /\ LET task == tasks[t]
       IN \E o \in Oracles(task.agent, task.params) :
             LET result == AgentRun(task.agent, task.params, o)
                 ran == [task EXCEPT
                            !.cur = result, !.queue = result.insights,
                            !.ext = @ + ExternalCalls(task.agent, task.params, o),
                            !.ran = Append(@, task.agent)]
             IN tasks' = [tasks EXCEPT ![t] =
                             IF result.insights = <<>>
                             THEN AfterRunAgent(ran)
                             ELSE [ran EXCEPT !.pc = "ai_load"]]
    /\ UNCHANGED <<fileExists, file, clock, heartbeatInterval, timers, writable, budget, defaultState>>

\* runAllAgents up to its first agent: const state = await loadMemory(); the
\* gating; the first block that applies (with no block, results stays empty)
RunAllAgentsLoaded(task, state) ==
    LET user == state.user
        loaded == [task EXCEPT !.user = user]
        stage == NextStage(user, 0)
    IN IF NothingConfigured(user)
       THEN AfterRunAll(loaded, <<NotConfiguredResult>>)
       ELSE IF stage > LastStage
       THEN AfterRunAll([loaded EXCEPT !.stage = stage], <<>>)
       ELSE [loaded EXCEPT !.pc = "ra_run", !.stage = stage,
                           !.agent = StageAgent(stage),
                           !.params = StageParams(user, stage)]

CallRunAllAgents(t) ==
    Start(t, IF LoadThrows
             THEN Fail(NewTask("runAllAgents", "raa_load", NoArg), "SyntaxError")
             ELSE RunAllAgentsLoaded(NewTask("runAllAgents", "raa_load", NoArg), loadMemory))

(***************************************************************************)
(* store.ts: addInsight                                                    *)
(***************************************************************************)
\* Math.random().toString(36).slice(2, 6)
RandomSuffixes == {"k3f9", "x0a7"}

\* `ins_${Date.now()}_${suffix}`
InsightId(now, suffix) == <<"ins", now, suffix>>

\* a slip in the tagging: the insight is stored as the agent returned it
TagInsightUntagged(insight, agentId) ==
    [agentId |-> Undefined, type |-> insight.type, title |-> insight.title]

\* runAgent: { ...insight, agentId }
TagInsight(insight, agentId) ==
    [agentId |-> agentId, type |-> insight.type, title |-> insight.title]

\* the insight a call hands to addInsight
InsightOf(task) ==
    IF task.op = "addInsight" THEN task.arg
    ELSE TagInsight(Head(task.queue), task.agent)

\* { ...insight, id, createdAt }
NewInsight(insight, now, suffix) ==
    [id |-> InsightId(now, suffix), agentId |-> insight.agentId,
     type |-> insight.type, title |-> insight.title, createdAt |-> now]

\* a slip in the truncation: the log is never cut
PushInsightUncapped(insights, entry) == Append(insights, entry)

\* a slip in the truncation: slice(0, 500) keeps the oldest 500
PushInsightKeepsOldest(insights, entry) ==
    LET pushed == Append(insights, entry)
    IN IF Len(pushed) > MAX_INSIGHTS THEN SliceFirst(pushed, MAX_INSIGHTS) ELSE pushed

\* state.insights.push(entry); keep the last 500
PushInsight(insights, entry) ==
    LET pushed == Append(insights, entry)
    IN IF Len(pushed) > MAX_INSIGHTS THEN SliceLast(pushed, MAX_INSIGHTS) ELSE pushed

\* const state = await loadMemory()
CallAddInsight(t, insight) ==
    Start(t, Load(NewTask("addInsight", "ai_save", insight)))

\* the same read, when runAgent calls addInsight for an insight of its agent
AddInsightLoad(t) ==
    /\ tasks[t].pc = "ai_load"
    /\ tasks' = [tasks EXCEPT ![t] = Load([@ EXCEPT !.pc = "ai_save"])]
    /\ UNCHANGED <<fileExists, file, clock, heartbeatInterval, timers, writable, budget, defaultState>>

\* build the entry, push, truncate, await saveMemory(state), return entry;
\* runAgent goes on to its next insight, or returns
AddInsightSave(t, suffixes) ==
    /\ tasks[t].pc = "ai_save"
    /\ \E suffix \in suffixes :
         LET task == tasks[t]
             entry == NewInsight(InsightOf(task), clock, suffix)
             state == [task.st EXCEPT !.insights = PushInsight(@, entry)]
             saved == [task EXCEPT !.st = state]
         IN Save(t, state,
                 IF task.op = "addInsight"
                 THEN Done(saved, entry)
                 ELSE IF Len(task.queue) > 1
                 THEN [saved EXCEPT !.pc = "ai_load", !.queue = Tail(@)]
                 ELSE AfterRunAgent([saved EXCEPT !.queue = <<>>]))
    /\ UNCHANGED <<clock, heartbeatInterval, timers, writable, budget>>

(***************************************************************************)
(* heartbeat.ts                                                            *)
(***************************************************************************)
\* a slip in the runtime call: the timer is left in place
clearIntervalKeeps(armed, handle) == armed

\* clearInterval(handle): the runtime drops the timer the handle names
clearInterval(armed, handle) ==
    LET at == {i \in 1..Len(armed) : armed[i] = handle}
    IN IF at = {} THEN armed
       ELSE LET k == CHOOSE i \in at : \A j \in at : i <= j
            IN SubSeq(armed, 1, k - 1) \o SubSeq(armed, k + 1, Len(armed))

\* a slip in the guard: a timer is armed whether or not one is running
startHeartbeatRearms(handle, armed, intervalMinutes) ==
    [handle |-> intervalMinutes, timers |-> Append(armed, intervalMinutes),
     ret |-> [started |-> TRUE, intervalMinutes |-> intervalMinutes]]

\* startHeartbeat: the handle, the armed timers and the value returned
startHeartbeat(handle, armed, intervalMinutes) ==
    IF handle # 0
    THEN [handle |-> handle, timers |-> armed,
          ret |-> [started |-> FALSE, intervalMinutes |-> intervalMinutes]]
    ELSE [handle |-> intervalMinutes, timers |-> Append(armed, intervalMinutes),
          ret |-> [started |-> TRUE, intervalMinutes |-> intervalMinutes]]

\* a slip in the stop: the handle is dropped and the timer is left armed
stopHeartbeatKeepsTimer(handle, armed) ==
    IF handle = 0
    THEN [handle |-> handle, timers |-> armed, ret |-> FALSE]
    ELSE [handle |-> 0, timers |-> armed, ret |-> TRUE]

\* stopHeartbeat: the handle, the armed timers and the value returned
stopHeartbeat(handle, armed) ==
    IF handle = 0
    THEN [handle |-> handle, timers |-> armed, ret |-> FALSE]
    ELSE [handle |-> 0, timers |-> clearInterval(armed, handle), ret |-> TRUE]

\* isHeartbeatRunning
isHeartbeatRunning(handle) == handle # 0

\* startHeartbeat called, its return value dropped
StartHeartbeat(intervalMinutes) ==
    /\ heartbeatInterval' = startHeartbeat(heartbeatInterval, timers, intervalMinutes).handle
    /\ timers' = startHeartbeat(heartbeatInterval, timers, intervalMinutes).timers
    /\ UNCHANGED <<fileExists, file, clock, writable, tasks, budget, defaultState>>

\* stopHeartbeat called while running, its return value dropped
StopHeartbeat ==
    /\ heartbeatInterval # 0
    /\ heartbeatInterval' = stopHeartbeat(heartbeatInterval, timers).handle
    /\ timers' = stopHeartbeat(heartbeatInterval, timers).timers
    /\ UNCHANGED <<fileExists, file, clock, writable, tasks, budget, defaultState>>

\* index.ts: the heartbeat tool handler; it has no await
CallHeartbeat(t, action, interval_minutes) ==
    LET out == CASE action = "start" ->
                       startHeartbeat(heartbeatInterval, timers, interval_minutes)
                 [] action = "stop" -> stopHeartbeat(heartbeatInterval, timers)
                 [] action = "status" ->
                       [handle |-> heartbeatInterval, timers |-> timers,
                        ret |-> isHeartbeatRunning(heartbeatInterval)]
        data == CASE action = "start" -> out.ret
                  [] action = "stop" -> [stopped |-> out.ret]
                  [] action = "status" -> [running |-> out.ret]
    IN /\ CanStart(t)
       /\ budget' = budget - 1
       /\ heartbeatInterval' = out.handle
       /\ timers' = out.timers
       /\ tasks' = [tasks EXCEPT ![t] =
              Done(NewTask("heartbeat", "hb_tool",
                           [action |-> action, interval_minutes |-> interval_minutes]),
                   data)]
       /\ UNCHANGED <<fileExists, file, clock, writable, defaultState>>

\* an armed timer fires: the tick callback starts with runAllAgents
TimerFire(t) ==
    /\ timers # <<>>
    /\ Start(t, IF LoadThrows
                THEN Fail(NewTask("tick", "raa_load", NoArg), "SyntaxError")
                ELSE RunAllAgentsLoaded(NewTask("tick", "raa_load", NoArg), loadMemory))

\* a slip in the tick: what is stamped is the state as it was when the tick
\* began, without the insights and the conversation entry the tick has stored
StampLoadStale(t) ==
    /\ tasks[t].pc = "hb_load"
    /\ LET n == TotalInsights(tasks[t].results)
           stale == [loadMemory EXCEPT
                        !.insights = SubSeq(@, 1, Len(@) - n),
                        !.conversations = SubSeq(@, 1, Len(@) - 1)]
       IN tasks' = [tasks EXCEPT ![t] = [@ EXCEPT !.pc = "hb_save", !.st = stale]]
    /\ UNCHANGED <<fileExists, file, clock, heartbeatInterval, timers, writable, budget, defaultState>>

\* const state = await loadMemory()
StampLoad(t) ==
    /\ tasks[t].pc = "hb_load"
    /\ tasks' = [tasks EXCEPT ![t] = Load([@ EXCEPT !.pc = "hb_save"])]
    /\ UNCHANGED <<fileExists, file, clock, heartbeatInterval, timers, writable, budget, defaultState>>

\* a slip in the loop: each monitor is replaced by a new one of the same target
StampMonitorsRecreates(monitors, now) ==
    [i \in 1..Len(monitors) |->
        [NewMonitor(monitors[i].type, monitors[i].value, now) EXCEPT !.lastCheckedAt = now]]

\* a slip in the loop: only the first monitor is stamped
StampMonitorsFirstOnly(monitors, now) ==
    [i \in 1..Len(monitors) |->
        IF i = 1 THEN [monitors[i] EXCEPT !.lastCheckedAt = now] ELSE monitors[i]]

\* for (const mon of state.monitors) mon.lastCheckedAt = now
StampMonitors(monitors, now) ==
    [i \in 1..Len(monitors) |-> [monitors[i] EXCEPT !.lastCheckedAt = now]]

\* stamp every monitor, await saveMemory(state); the tick is over
StampSave(t) ==
    /\ tasks[t].pc = "hb_save"
    /\ LET state == [tasks[t].st EXCEPT !.monitors = StampMonitors(@, clock)]
       IN Save(t, state, Done(tasks[t], NoRet))
    /\ UNCHANGED <<clock, heartbeatInterval, timers, writable, budget>>

(***************************************************************************)
(* Spec: the store under interleaved calls and heartbeat ticks, from the   *)
(* state of a fresh process with no state file                             *)
(***************************************************************************)
Init ==
    /\ fileExists = FALSE
    /\ file = DEFAULT_STATE
    /\ clock = LoadTime
    /\ heartbeatInterval = 0
    /\ timers = <<>>
    /\ writable = TRUE
    /\ defaultState = DEFAULT_STATE
    /\ tasks = [t \in Slots |-> IdleTask]
    /\ budget = MaxStarted

\* the arguments the calls of Spec are made with
SomeUpdates == {[keywords |-> <<"CRM">>]}
SomeInsights == {[agentId |-> "trend-spotter", type |-> "trend", title |-> <<"trend", "CRM">>]}
SomeConversations == {[role |-> "user", agentId |-> Undefined, content |-> <<"hello">>]}
DefaultInterval == 30
SpecSuffixes == {"k3f9"}

Next ==
    \/ ClockTick
    \/ \E t \in Slots, type \in MonitorTypes, value \in MonitorValues :
          CallAddMonitor(t, type, value)
    \/ \E t \in Slots : AddMonitorSave(t)
    \/ \E t \in Slots, now \in 0..MaxClock : CallRemoveMonitor(t, MonitorId(now))
    \/ \E t \in Slots : RemoveMonitorSave(t)
    \/ \E t \in Slots, u \in SomeUpdates : CallUpdateUser(t, u)
    \/ \E t \in Slots : UpdateUserSave(t)
    \/ \E t \in Slots, i \in SomeInsights : CallAddInsight(t, i)
    \/ \E t \in Slots : AddInsightLoad(t)
    \/ \E t \in Slots : AddInsightSave(t, SpecSuffixes)
    \/ \E t \in Slots, c \in SomeConversations : CallAddConversation(t, c)
    \/ \E t \in Slots : AddConversationLoad(t)
    \/ \E t \in Slots : AddConversationSave(t)
    \/ StartHeartbeat(DefaultInterval)
    \/ StopHeartbeat
    \/ \E t \in Slots : TimerFire(t)
    \/ \E t \in Slots : RunAgentRun(t)
    \/ \E t \in Slots : StampLoad(t)
    \/ \E t \in Slots : StampSave(t)
    \/ \E t \in Slots : Return(t)

Spec == Init /\ [][Next]_vars

(***************************************************************************)
(* Claims checked under Spec                                               *)
(***************************************************************************)
\* the positions of the stored monitors with the given type and value
SamePair(monitors, type, value) ==
    {i \in 1..Len(monitors) : monitors[i].type = type /\ monitors[i].value = value}

\* C1: addMonitor is idempotent per (type, value): a call made while a monitor
\* with that type and value is stored writes nothing, the stored list still
\* holds exactly one target for the pair, and the call returns that stored
\* target (its id and createdAt), not a new one
C1_AddMonitorIdempotent ==
    [][\A t \in Slots :
          (tasks[t].pc = "idle" /\ tasks'[t].op = "addMonitor")
          => LET a == tasks'[t].arg
                 same == SamePair(loadMemory.monitors, a.type, a.value)
             IN same # {}
                => /\ file' = file /\ fileExists' = fileExists
                   /\ tasks'[t].pc = "done"
                   /\ \E i \in same : tasks'[t].ret = file.monitors[i]
                   /\ Cardinality(SamePair(file'.monitors, a.type, a.value)) = 1]_vars

\* C1 witness: an addMonitor call has returned a target that a heartbeat tick
\* had stamped and that was created at an earlier clock value, so the target
\* was stored before the call
C1_Witness ==
    \E t \in Slots :
        /\ tasks[t].op = "addMonitor" /\ tasks[t].pc = "done"
        /\ tasks[t].ret.lastCheckedAt # Never
        /\ tasks[t].ret.createdAt < clock

\* C2: no two stored monitor targets have the same (type, value) pair
C2_NoDuplicateMonitors ==
    \A i, j \in 1..Len(file.monitors) :
        (file.monitors[i].type = file.monitors[j].type
         /\ file.monitors[i].value = file.monitors[j].value) => i = j

\* C2 witness: two addMonitor calls for the same pair both loaded before either
\* saved, both created a target, and both have saved
C2_Witness ==
    /\ tasks[1].op = "addMonitor" /\ tasks[1].pc = "done"
    /\ tasks[2].op = "addMonitor" /\ tasks[2].pc = "done"
    /\ tasks[1].arg = tasks[2].arg
    /\ tasks[1].ret.createdAt # tasks[2].ret.createdAt
    /\ tasks[1].ret.lastCheckedAt = Never /\ tasks[2].ret.lastCheckedAt = Never

(***************************************************************************)
(* SpecInsightCap, SpecConversationCap: one caller appends to an empty     *)
(* log, one call after the other; the n-th call appends the entry whose    *)
(* title (content) is n                                                    *)
(***************************************************************************)
MaxInsightAppends == 503
MaxConversationAppends == 203

Min(a, b) == IF a <= b THEN a ELSE b

\* the argument of the n-th addInsight call
NthInsight(n) == [agentId |-> "trend-spotter", type |-> "trend", title |-> n]

\* the argument of the n-th addConversation call
NthConversation(n) == [role |-> "user", agentId |-> Undefined, content |-> n]

InitInsightCap ==
    /\ fileExists = FALSE
    /\ file = DEFAULT_STATE
    /\ clock = LoadTime
    /\ heartbeatInterval = 0
    /\ timers = <<>>
    /\ writable = TRUE
    /\ defaultState = DEFAULT_STATE
    /\ tasks = [t \in Slots |-> IdleTask]
    /\ budget = MaxInsightAppends

NextInsightCap ==
    \/ CallAddInsight(1, NthInsight(MaxInsightAppends - budget + 1))
    \/ AddInsightSave(1, SpecSuffixes)
    \/ Return(1)

SpecInsightCap == InitInsightCap /\ [][NextInsightCap]_vars

InitConversationCap ==
    /\ fileExists = FALSE
    /\ file = DEFAULT_STATE
    /\ clock = LoadTime
    /\ heartbeatInterval = 0
    /\ timers = <<>>
    /\ writable = TRUE
    /\ defaultState = DEFAULT_STATE
    /\ tasks = [t \in Slots |-> IdleTask]
    /\ budget = MaxConversationAppends

NextConversationCap ==
    \/ CallAddConversation(1, NthConversation(MaxConversationAppends - budget + 1))
    \/ AddConversationSave(1)
    \/ Return(1)

SpecConversationCap == InitConversationCap /\ [][NextConversationCap]_vars

\* C3: after n addInsight calls on an empty log, none interleaved, the stored
\* log is the last min(n, 500) appended entries in append order (entry i of
\* the log is append number n - min(n, 500) + i, with the agent and type given)
C3_InsightCapFifo ==
    tasks[1].pc \in {"idle", "done"}
    => LET n == MaxInsightAppends - budget
           m == Min(n, 500)
           log == loadMemory.insights
       IN /\ Len(log) = m
          /\ \A i \in 1..m :
                /\ log[i].title = n - m + i
                /\ log[i].agentId = "trend-spotter"
                /\ log[i].type = "trend"

\* C3 witness: the 501st append has returned; the log holds 500 entries, the
\* oldest of them is append number 2
C3_Witness ==
    /\ budget = MaxInsightAppends - 501
    /\ tasks[1].op = "addInsight" /\ tasks[1].pc = "done"
    /\ tasks[1].ret.title = 501
    /\ Len(file.insights) = 500
    /\ file.insights[1].title = 2

\* C4: after n addConversation calls on an empty log, none interleaved, the
\* stored log is the last min(n, 200) appended entries in append order
C4_ConversationCapFifo ==
    tasks[1].pc \in {"idle", "done"}
    => LET n == MaxConversationAppends - budget
           m == Min(n, 200)
           log == loadMemory.conversations
       IN /\ Len(log) = m
          /\ \A i \in 1..m :
                /\ log[i].content = n - m + i
                /\ log[i].role = "user"

\* C4 witness: the 201st append has returned; the log holds 200 entries, the
\* oldest of them is append number 2
C4_Witness ==
    /\ budget = MaxConversationAppends - 201
    /\ tasks[1].op = "addConversation" /\ tasks[1].pc = "done"
    /\ Len(file.conversations) = 200
    /\ file.conversations[1].content = 2
    /\ file.conversations[200].content = 201

(***************************************************************************)
(* SpecQuery: getInsights on every stored log of up to MaxLogLen insights  *)
(* of two agents and two types, with every filter; entry i has title i     *)
(***************************************************************************)
MaxLogLen == 3
MaxLimit == 4
MaxQueryCalls == 1

QueryAgents == {"trend-spotter", "lead-qualifier"}
QueryTypes == {"trend", "buying_signal"}

\* the stored logs: any agent and type at each position
QueryLogs ==
    UNION {[1..n -> QueryAgents \X QueryTypes] : n \in 0..MaxLogLen}

\* the log as addInsight stored it
StoredLog(l) ==
    [i \in 1..Len(l) |->
        NewInsight([agentId |-> l[i][1], type |-> l[i][2], title |-> i],
                   LoadTime, "k3f9")]

QueryFilters ==
    [agentId : QueryAgents \cup {Undefined},
     type : QueryTypes \cup {Undefined},
     limit : 0..MaxLimit]

InitQuery ==
    /\ fileExists = TRUE
    /\ \E l \in QueryLogs : file = [DEFAULT_STATE EXCEPT !.insights = StoredLog(l)]
    /\ clock = LoadTime
    /\ heartbeatInterval = 0
    /\ timers = <<>>
    /\ writable = TRUE
    /\ defaultState = DEFAULT_STATE
    /\ tasks = [t \in Slots |-> IdleTask]
    /\ budget = MaxQueryCalls

NextQuery ==
    \/ \E f \in QueryFilters : CallGetInsights(1, f)
    \/ Return(1)

SpecQuery == InitQuery /\ [][NextQuery]_vars

\* the positions of the stored insights that match every supplied filter
Matching(log, f) ==
    {i \in 1..Len(log) :
        /\ f.agentId # Undefined => log[i].agentId = f.agentId
        /\ f.type # Undefined => log[i].type = f.type}

\* the j-th smallest element of a set of positions
NthOf(positions, j) ==
    CHOOSE i \in positions : Cardinality({x \in positions : x <= i}) = j

\* C5: getInsights with limit N >= 1 returns the last min(N, m) of the m stored
\* insights that match every supplied filter, in stored order
C5_GetInsightsSuffix ==
    \A t \in Slots :
        (tasks[t].op = "getInsights" /\ tasks[t].pc = "done" /\ tasks[t].arg.limit >= 1)
        => LET f == tasks[t].arg
               ret == tasks[t].ret
               match == Matching(file.insights, f)
               m == Cardinality(match)
               k == Min(f.limit, m)
           IN /\ Len(ret) = k
              /\ \A j \in 1..k : ret[j] = file.insights[NthOf(match, m - k + j)]

\* C5 witness: a query with both filters and limit 2 returned two entries that
\* are not adjacent in the log, a third match being cut off
C5_Witness ==
    \E t \in Slots :
        /\ tasks[t].op = "getInsights" /\ tasks[t].pc = "done"
        /\ tasks[t].arg.agentId # Undefined /\ tasks[t].arg.type # Undefined
        /\ tasks[t].arg.limit = 2
        /\ Cardinality(Matching(file.insights, tasks[t].arg)) = 2
        /\ Len(file.insights) = 3
        /\ Len(tasks[t].ret) = 2
        /\ tasks[t].ret[1].title = 1 /\ tasks[t].ret[2].title = 3

(***************************************************************************)
(* SpecProfile: updateUser and configure_user, one call at a time, with    *)
(* every subset of the fields supplied, on an empty and on a filled profile*)
(***************************************************************************)
MaxProfileCalls == 1

FilledUser ==
    [industry |-> "Retail", competitors |-> <<"Globex">>, keywords |-> <<"x", "y">>,
     trackedChannels |-> <<"UC999">>, notes |-> <<"old">>, updatedAt |-> LoadTime]

\* the value a call supplies for a field
NewValues ==
    [industry |-> "SaaS", competitors |-> <<"Acme">>, keywords |-> <<"a">>,
     trackedChannels |-> <<"UC123">>, notes |-> <<"n">>, updatedAt |-> 99]

\* Partial<UserProfile>: any subset of the profile's keys
ProfileUpdates ==
    {[f \in S |-> NewValues[f]] : S \in SUBSET (ProfileFields \cup {"updatedAt"})}

ConfigureParamNames == {"industry", "competitors", "keywords", "tracked_channels", "notes"}

\* the configure_user input: any subset of its five optional parameters
ConfigureParams ==
    {[q \in S |-> NewValues[IF q = "tracked_channels" THEN "trackedChannels" ELSE q]] :
        S \in SUBSET ConfigureParamNames}

InitProfile ==
    /\ \/ fileExists = FALSE /\ file = DEFAULT_STATE
       \/ fileExists = TRUE /\ file = [DEFAULT_STATE EXCEPT !.user = FilledUser]
    /\ clock = LoadTime
    /\ heartbeatInterval = 0
    /\ timers = <<>>
    /\ writable = TRUE
    /\ defaultState = DEFAULT_STATE
    /\ tasks = [t \in Slots |-> IdleTask]
    /\ budget = MaxProfileCalls

NextProfile ==
    \/ ClockTick
    \/ \E u \in ProfileUpdates : CallUpdateUser(1, u)
    \/ \E q \in ConfigureParams : CallConfigureUser(1, q)
    \/ UpdateUserSave(1)
    \/ AddConversationLoad(1)
    \/ AddConversationSave(1)
    \/ Return(1)

SpecProfile == InitProfile /\ [][NextProfile]_vars

\* the caller supplied profile field f
Supplied(task, f) ==
    IF task.op = "configure_user"
    THEN (IF f = "trackedChannels" THEN "tracked_channels" ELSE f) \in DOMAIN task.arg
    ELSE f \in DOMAIN task.arg

\* C6: when updateUser stores the profile, each supplied field holds the new
\* value entirely, each field not supplied is as it was, updatedAt is the time
\* of the call, the rest of the store is untouched, and updateUser returns the
\* stored profile
C6_ProfileMergeUpdate ==
    [][\A t \in Slots :
          (tasks[t].pc = "uu_save" /\ tasks'[t].pc # "uu_save")
          => /\ \A f \in ProfileFields :
                   file'.user[f] = IF Supplied(tasks[t], f) THEN NewValues[f]
                                   ELSE loadMemory.user[f]
             /\ file'.user.updatedAt = clock
             /\ fileExists'
             /\ file'.monitors = loadMemory.monitors
             /\ file'.insights = loadMemory.insights
             /\ file'.conversations = loadMemory.conversations
             /\ tasks'[t].ret = file'.user]_vars

\* C6 witness: updateUser({keywords: ["a"]}) on the profile with keywords
\* ["x", "y"] has stored ["a"], kept the competitors, and refreshed updatedAt
C6_Witness ==
    \E t \in Slots :
        /\ tasks[t].op = "updateUser" /\ tasks[t].pc = "done"
        /\ DOMAIN tasks[t].arg = {"keywords"}
        /\ file.user.keywords = <<"a">>
        /\ file.user.competitors = <<"Globex">>
        /\ file.user.industry = "Retail"
        /\ file.user.updatedAt = 1
        /\ tasks[t].ret = file.user

(***************************************************************************)
(* SpecOrch: runAllAgents and runAgent, one call at a time, on every       *)
(* profile of up to one competitor, keyword and tracked channel, with a    *)
(* log that is empty or holds one earlier insight                          *)
(***************************************************************************)
MaxOrchCalls == 1

OrchProfiles ==
    {[DEFAULT_STATE.user EXCEPT !.competitors = c, !.keywords = k, !.trackedChannels = ch] :
        c \in {<<>>, <<"Acme">>}, k \in {<<>>, <<"CRM">>}, ch \in {<<>>, <<"UC123">>}}

\* an insight stored by an earlier run
EarlierInsight ==
    NewInsight([agentId |-> "trend-spotter", type |-> "trend",
                title |-> <<"earlier", "run">>], LoadTime, "x0a7")

\* the ids runAgent is called with: the four agents, a name that is no key of
\* the agents object, and a name it inherits
OrchAgentIds == AgentIds \cup {"unknown-agent", "constructor"}

EmptyParams == [x \in {} |-> <<>>]

OrchParams ==
    {EmptyParams,
     [keywords |-> <<"CRM">>],
     [keywords |-> <<"CRM", "Acme">>],
     [channelIds |-> <<"UC123">>, keywords |-> <<"Acme review">>],
     [videoIds |-> <<"v1">>],
     [keywords |-> <<"CRM">>, videoIds |-> <<"v1">>]}

InitOrch ==
    /\ \/ fileExists = FALSE /\ file = DEFAULT_STATE
       \/ /\ fileExists = TRUE
          /\ \E u \in OrchProfiles, log \in {<<>>, <<EarlierInsight>>} :
                file = [DEFAULT_STATE EXCEPT !.user = u, !.insights = log]
    /\ clock = LoadTime
    /\ heartbeatInterval = 0
    /\ timers = <<>>
    /\ writable = TRUE
    /\ defaultState = DEFAULT_STATE
    /\ tasks = [t \in Slots |-> IdleTask]
    /\ budget = MaxOrchCalls

NextOrch ==
    \/ CallRunAllAgents(1)
    \/ \E id \in OrchAgentIds, params \in OrchParams : CallRunAgent(1, id, params)
    \/ RunAgentRun(1)
    \/ AddInsightLoad(1)
    \/ AddInsightSave(1, SpecSuffixes)
    \/ Return(1)

SpecOrch == InitOrch /\ [][NextOrch]_vars

\* the stored profile names no competitor, keyword or tracked channel
EmptyProfile(user) ==
    user.competitors = <<>> /\ user.keywords = <<>> /\ user.trackedChannels = <<>>

\* C7: runAllAgents called on a stored profile with no competitors, keywords or
\* tracked channels returns exactly one result, a failure without insights,
\* having run no agent, made no external call and left the store as it was
C7_GatingOnEmptyProfile ==
    [][\A t \in Slots :
          (tasks[t].op = "idle" /\ tasks'[t].op = "runAllAgents"
           /\ EmptyProfile(loadMemory.user))
          => /\ tasks'[t].pc = "done"
             /\ Len(tasks'[t].ret) = 1
             /\ tasks'[t].ret[1].success = FALSE
             /\ tasks'[t].ret[1].insights = <<>>
             /\ tasks'[t].ran = <<>>
             /\ tasks'[t].ext = 0
             /\ file' = file /\ fileExists' = fileExists]_vars

\* C7 witness: runAllAgents has returned the single failure result on a store
\* whose profile is empty and whose log still holds just the earlier insight
C7_Witness ==
    \E t \in Slots :
        /\ tasks[t].op = "runAllAgents" /\ tasks[t].pc = "done"
        /\ EmptyProfile(file.user)
        /\ Len(tasks[t].ret) = 1 /\ tasks[t].ret[1].success = FALSE
        /\ file.insights = <<EarlierInsight>>

\* the agents the profile selects, in order
ExpectedAgents(user) ==
    (IF user.trackedChannels # <<>> \/ user.competitors # <<>>
     THEN <<"competitor-monitor">> ELSE <<>>)
    \o (IF user.keywords # <<>> THEN <<"trend-spotter">> ELSE <<>>)
    \o (IF user.keywords # <<>> \/ user.competitors # <<>>
        THEN <<"lead-qualifier">> ELSE <<>>)

IsPrefix(s, r) == Len(s) <= Len(r) /\ \A i \in 1..Len(s) : s[i] = r[i]

\* C8: on a non-empty profile runAllAgents runs competitor-monitor iff channels or
\* competitors are set, trend-spotter iff keywords are set, lead-qualifier iff
\* keywords or competitors are set, in that order, never sentiment-analyst, and
\* returns one result per agent run, in the order run
C8_AgentSelectionAndOrder ==
    \A t \in Slots :
        (tasks[t].op = "runAllAgents" /\ ~EmptyProfile(file.user))
        => /\ IsPrefix(tasks[t].ran, ExpectedAgents(file.user))
           /\ \A i \in 1..Len(tasks[t].ran) : tasks[t].ran[i] # "sentiment-analyst"
           /\ tasks[t].pc = "done"
              => /\ tasks[t].ran = ExpectedAgents(file.user)
                 /\ [i \in 1..Len(tasks[t].ret) |-> tasks[t].ret[i].agentId]
                        = ExpectedAgents(file.user)

\* C8 witness: with competitors ["Acme"] and keywords ["CRM"] the three results
\* have been returned
C8_Witness ==
    \E t \in Slots :
        /\ tasks[t].op = "runAllAgents" /\ tasks[t].pc = "done"
        /\ file.user.competitors = <<"Acme">> /\ file.user.keywords = <<"CRM">>
        /\ file.user.trackedChannels = <<>>
        /\ Len(tasks[t].ret) = 3
        /\ tasks[t].ret[1].agentId = "competitor-monitor"
        /\ tasks[t].ret[2].agentId = "trend-spotter"
        /\ tasks[t].ret[3].agentId = "lead-qualifier"

\* the number of insights of its result a runAgent call has persisted so far
Persisted(task) ==
    IF task.pc = "done" THEN Len(task.ret.insights)
    ELSE IF task.pc \in {"ai_load", "ai_save"}
    THEN Len(task.cur.insights) - Len(task.queue)
    ELSE 0

\* C9: every step of a runAgent call of a known agent either leaves the store as
\* it is or appends to the log exactly one entry, the next insight of the result
\* in the order returned, tagged with the dispatching id; the call returns the
\* agent's result once as many entries are appended as it has insights
C9_InsightsPersistedTagged ==
    [][\A t \in Slots :
          (tasks[t].op = "runAgent" /\ tasks[t].agent \in AgentIds
           /\ tasks'[t].op = "runAgent")
          => LET before == Persisted(tasks[t])
                 after == Persisted(tasks'[t])
                 old == file.insights
                 new == file'.insights
             IN /\ after \in {before, before + 1}
                /\ after = before => file' = file /\ fileExists' = fileExists
                /\ after = before + 1
                   => /\ Len(new) = Len(old) + 1
                      /\ SubSeq(new, 1, Len(old)) = old
                      /\ new[Len(new)].agentId = tasks[t].agent
                      /\ new[Len(new)].agentId \notin {"", Undefined}
                      /\ new[Len(new)].type = tasks[t].cur.insights[after].type
                      /\ new[Len(new)].title = tasks[t].cur.insights[after].title
                /\ tasks'[t].pc = "done"
                   => /\ tasks'[t].ret = tasks'[t].cur
                      /\ after = Len(tasks'[t].ret.insights)]_vars

\* C9 witness: sentiment-analyst returned three insights and the log holds the
\* earlier insight followed by the three, tagged
C9_Witness ==
    \E t \in Slots :
        /\ tasks[t].op = "runAgent" /\ tasks[t].pc = "done"
        /\ tasks[t].agent = "sentiment-analyst"
        /\ Len(tasks[t].ret.insights) = 3
        /\ Len(file.insights) = 4
        /\ file.insights[1] = EarlierInsight
        /\ \A i \in 2..4 : file.insights[i].agentId = "sentiment-analyst"

\* C10: runAgent with an id that is not one of the four agents returns a failure
\* result without insights: it does not throw, runs nothing and makes no
\* external call
C10_UnknownAgentFailsSoftly ==
    \A t \in Slots :
        (tasks[t].op = "runAgent" /\ tasks[t].agent \notin AgentIds)
        => /\ tasks[t].pc = "done"
           /\ tasks[t].ret.success = FALSE
           /\ tasks[t].ret.insights = <<>>
           /\ tasks[t].ext = 0
           /\ tasks[t].ran = <<>>

(***************************************************************************)
(* SpecAgents: agent.run of each of the four agents on well-typed params,  *)
(* with every outcome of every external call                               *)
(***************************************************************************)
MaxAgentRuns == 1

\* the params each agent is run with (the lists its type requires are present)
AgentInputs ==
    {[agentId |-> "competitor-monitor", params |-> EmptyParams],
     [agentId |-> "competitor-monitor",
      params |-> [channelIds |-> <<"UC123", "UC456">>, keywords |-> <<"Acme review">>]],
     [agentId |-> "trend-spotter", params |-> [keywords |-> <<>>]],
     [agentId |-> "trend-spotter", params |-> [keywords |-> <<"CRM", "Acme">>]],
     [agentId |-> "lead-qualifier", params |-> [keywords |-> <<"CRM", "Acme">>]],
     [agentId |-> "lead-qualifier",
      params |-> [keywords |-> <<"CRM">>, videoIds |-> <<"v1">>]],
     [agentId |-> "sentiment-analyst", params |-> [videoIds |-> <<"v1", "v2">>]]}

\* agent.run(params) called on its own; o is what the external calls answer
CallAgentRun(t, agentId, params, o) ==
    LET task == [NewTask("agentRun", "ar_run", o) EXCEPT
                    !.agent = agentId, !.params = params]
    IN Start(t, IF RunThrows(agentId, params)
                THEN Threw(task, "TypeError")
                ELSE Done([task EXCEPT
                              !.ext = ExternalCalls(agentId, params, o),
                              !.ran = <<agentId>>],
                          AgentRun(agentId, params, o)))

InitAgents ==
    /\ fileExists = FALSE
    /\ file = DEFAULT_STATE
    /\ clock = LoadTime
    /\ heartbeatInterval = 0
    /\ timers = <<>>
    /\ writable = TRUE
    /\ defaultState = DEFAULT_STATE
    /\ tasks = [t \in Slots |-> IdleTask]
    /\ budget = MaxAgentRuns

NextAgents ==
    \/ \E in \in AgentInputs : \E o \in Oracles(in.agentId, in.params) :
          CallAgentRun(1, in.agentId, in.params, o)
    \/ Return(1)

SpecAgents == InitAgents /\ [][NextAgents]_vars

\* what one channel yields: an insight when the call succeeded and found
\* videos of the last week
OfOneChannel(channelId, outcome) ==
    IF outcome = "recent"
    THEN <<[type |-> "competitor_move", title |-> <<"new videos", channelId>>]>>
    ELSE <<>>

\* what one keyword yields, by agent
OfOneKeyword(agentId, keyword, search, comments) ==
    CASE agentId = "competitor-monitor" ->
            IF search = "videos"
            THEN <<[type |-> "competitor_move", title |-> <<"videos found", keyword>>]>>
            ELSE <<>>
      [] agentId = "trend-spotter" ->
            IF search # "fail"
            THEN <<[type |-> "trend", title |-> <<"trend", keyword>>]>>
            ELSE <<>>
      [] agentId = "lead-qualifier" ->
            IF search = "videos" /\ comments = "signal"
            THEN <<[type |-> "buying_signal",
                    title |-> <<"buying signals in top video", keyword>>]>>
            ELSE <<>>

\* what one video yields, by agent
OfOneVideo(agentId, videoId, outcome) ==
    IF agentId = "lead-qualifier"
    THEN (IF outcome = "signal"
          THEN <<[type |-> "buying_signal",
                  title |-> <<"buying signals in video", videoId>>]>>
          ELSE <<>>)
    ELSE (IF "negative" \in outcome
          THEN <<[type |-> "sentiment", title |-> <<"negative comments", videoId>>]>>
          ELSE <<>>)
         \o (IF "request" \in outcome
             THEN <<[type |-> "buying_signal", title |-> <<"feature requests", videoId>>]>>
             ELSE <<>>)
         \o (IF "positive" \in outcome
             THEN <<[type |-> "sentiment", title |-> <<"positive comments", videoId>>]>>
             ELSE <<>>)

\* the yields of items i..n, one after the other
RECURSIVE ChannelYields(_, _, _)
ChannelYields(channelIds, o, i) ==
    IF i > Len(channelIds) THEN <<>>
    ELSE OfOneChannel(channelIds[i], o.chan[i]) \o ChannelYields(channelIds, o, i + 1)

RECURSIVE KeywordYields(_, _, _, _)
KeywordYields(agentId, keywords, o, i) ==
    IF i > Len(keywords) THEN <<>>
    ELSE OfOneKeyword(agentId, keywords[i], o.srch[i],
                      IF agentId = "lead-qualifier" THEN o.cmts[i] ELSE "plain")
         \o KeywordYields(agentId, keywords, o, i + 1)

RECURSIVE VideoYields(_, _, _, _)
VideoYields(agentId, videoIds, o, i) ==
    IF i > Len(videoIds) THEN <<>>
    ELSE OfOneVideo(agentId, videoIds[i],
                    IF agentId = "lead-qualifier" THEN o.vid[i] ELSE o.sent[i])
         \o VideoYields(agentId, videoIds, o, i + 1)

\* the external calls of a run in which no item is skipped: one per channel,
\* keyword and video, and one more for each lead-qualifier search with videos
CallsOfAllItems(agentId, params, o) ==
    (IF agentId = "competitor-monitor" THEN Len(ListOr(params, "channelIds")) ELSE 0)
    + (IF agentId # "sentiment-analyst" THEN Len(ListOr(params, "keywords")) ELSE 0)
    + (IF agentId = "lead-qualifier"
       THEN Cardinality({i \in 1..Len(params.keywords) : o.srch[i] = "videos"})
       ELSE 0)
    + (IF agentId \in {"lead-qualifier", "sentiment-analyst"}
       THEN Len(ListOr(params, "videoIds")) ELSE 0)

\* C11: whatever external calls fail, an agent run does not throw, returns
\* success = true, makes the call of every item, and returns the yields of its
\* items in order, each item's yield fixed by its own outcome alone: none for a
\* failed item, and the same for the others as when nothing failed
C11_PerItemFailurePolicy ==
    \A t \in Slots :
        tasks[t].op = "agentRun"
        => LET a == tasks[t].agent
               p == tasks[t].params
               o == tasks[t].arg
           IN /\ tasks[t].pc = "done"
              /\ tasks[t].ret.success = TRUE
              /\ tasks[t].ret.agentId = a
              /\ tasks[t].ext = CallsOfAllItems(a, p, o)
              /\ tasks[t].ret.insights =
                    (IF a = "competitor-monitor"
                     THEN ChannelYields(ListOr(p, "channelIds"), o, 1) ELSE <<>>)
                    \o (IF a # "sentiment-analyst"
                        THEN KeywordYields(a, ListOr(p, "keywords"), o, 1) ELSE <<>>)
                    \o (IF a \in {"lead-qualifier", "sentiment-analyst"}
                        THEN VideoYields(a, ListOr(p, "videoIds"), o, 1) ELSE <<>>)

\* C11 witness: trend-spotter's first search failed and its second did not; the
\* run returned success with the one insight of the second keyword
C11_Witness ==
    \E t \in Slots :
        /\ tasks[t].op = "agentRun" /\ tasks[t].pc = "done"
        /\ tasks[t].agent = "trend-spotter"
        /\ tasks[t].params.keywords = <<"CRM", "Acme">>
        /\ tasks[t].arg.srch = <<"fail", "videos">>
        /\ tasks[t].ret.success = TRUE
        /\ tasks[t].ret.insights = <<[type |-> "trend", title |-> <<"trend", "Acme">>]>>

(***************************************************************************)
(* SpecHeartbeat: the heartbeat tool, called with start, stop and status   *)
(* in any order and with any of three intervals                            *)
(***************************************************************************)
MaxHeartbeatCalls == 4

\* interval_minutes: the least, the default and the greatest the schema admits
HeartbeatIntervals == {5, 30, 120}

HeartbeatActions == {"start", "stop", "status"}

InitHeartbeat ==
    /\ fileExists = FALSE
    /\ file = DEFAULT_STATE
    /\ clock = LoadTime
    /\ heartbeatInterval = 0
    /\ timers = <<>>
    /\ writable = TRUE
    /\ defaultState = DEFAULT_STATE
    /\ tasks = [t \in Slots |-> IdleTask]
    /\ budget = MaxHeartbeatCalls

NextHeartbeat ==
    \/ \E t \in Slots, action \in HeartbeatActions, m \in HeartbeatIntervals :
          CallHeartbeat(t, action, m)
    \/ \E t \in Slots : Return(t)

SpecHeartbeat == InitHeartbeat /\ [][NextHeartbeat]_vars

\* the heartbeat tool is called in slot t with the given action
HeartbeatCalled(t, action) ==
    /\ tasks[t].op = "idle"
    /\ tasks'[t].op = "heartbeat"
    /\ tasks'[t].arg.action = action

\* C12: a start made while a timer is armed returns started = false, arms no
\* second timer, leaves the armed timer and its interval as they were, and the
\* heartbeat still reports running
C12_StartWhileRunningIsNoOp ==
    [][\A t \in Slots :
          (HeartbeatCalled(t, "start") /\ timers # <<>>)
          => /\ tasks'[t].ret.started = FALSE
             /\ timers' = timers
             /\ Len(timers') = 1
             /\ heartbeatInterval' = heartbeatInterval
             /\ isHeartbeatRunning(heartbeatInterval')]_vars

\* C12 witness: start(30) then start(120): the second returned started = false
\* and the one armed timer is the 30 minute one
C12_Witness ==
    \E t \in Slots :
        /\ tasks[t].op = "heartbeat" /\ tasks[t].pc = "done"
        /\ tasks[t].arg.action = "start" /\ tasks[t].arg.interval_minutes = 120
        /\ tasks[t].ret.started = FALSE
        /\ timers = <<30>>
        /\ heartbeatInterval = 30

\* C13: no timer is armed at process start; at most one timer is ever armed;
\* status returns whether a timer is armed; start returns started = true iff no
\* timer was armed, and arms one; stop returns true iff a timer was armed, and
\* leaves none armed
C13_HeartbeatLifecycle ==
    /\ timers = <<>> /\ ~isHeartbeatRunning(heartbeatInterval)
    /\ [](Len(timers) <= 1)
    /\ [][\A t \in Slots :
             /\ HeartbeatCalled(t, "status")
                => /\ tasks'[t].ret.running = (timers # <<>>)
                   /\ timers' = timers
             /\ HeartbeatCalled(t, "start")
                => /\ tasks'[t].ret.started = (timers = <<>>)
                   /\ Len(timers') = 1
                   /\ timers = <<>> => timers' = <<tasks'[t].arg.interval_minutes>>
             /\ HeartbeatCalled(t, "stop")
                => /\ tasks'[t].ret.stopped = (timers # <<>>)
                   /\ timers' = <<>>]_vars

\* C13 witness: a stop has returned true and, its result not yet taken, a
\* start has returned started = true and armed the 5 minute timer
C13_Witness ==
    /\ tasks[1].op = "heartbeat" /\ tasks[1].pc = "done"
    /\ tasks[1].arg.action = "stop" /\ tasks[1].ret.stopped = TRUE
    /\ tasks[2].op = "heartbeat" /\ tasks[2].pc = "done"
    /\ tasks[2].arg.action = "start" /\ tasks[2].arg.interval_minutes = 5
    /\ tasks[2].ret.started = TRUE
    /\ timers = <<5>>

(***************************************************************************)
(* SpecTick: one heartbeat tick at a time, nothing else running, on a      *)
(* store with an empty or a configured profile and up to two monitors      *)
(***************************************************************************)
MaxTicks == 1

TickProfiles ==
    {DEFAULT_STATE.user,
     [DEFAULT_STATE.user EXCEPT !.keywords = <<"CRM">>],
     [DEFAULT_STATE.user EXCEPT !.competitors = <<"Acme">>]}

\* stored monitors: one never checked, one checked by an earlier tick
TickMonitors ==
    {<<>>,
     <<NewMonitor("keyword", "CRM review", LoadTime)>>,
     <<NewMonitor("keyword", "CRM review", LoadTime),
       [NewMonitor("channel", "UC123", LoadTime) EXCEPT !.lastCheckedAt = LoadTime]>>}

InitTick ==
    /\ fileExists = TRUE
    /\ \E u \in TickProfiles, m \in TickMonitors :
          file = [DEFAULT_STATE EXCEPT !.user = u, !.monitors = m]
    /\ writable = TRUE
    /\ defaultState = DEFAULT_STATE
    /\ clock = LoadTime
    /\ heartbeatInterval = DefaultInterval
    /\ timers = <<DefaultInterval>>
    /\ tasks = [t \in Slots |-> IdleTask]
    /\ budget = MaxTicks

NextTick ==
    \/ ClockTick
    \/ TimerFire(1)
    \/ RunAgentRun(1)
    \/ AddInsightLoad(1)
    \/ AddInsightSave(1, SpecSuffixes)
    \/ AddConversationLoad(1)
    \/ AddConversationSave(1)
    \/ StampLoad(1)
    \/ StampSave(1)
    \/ Return(1)

SpecTick == InitTick /\ [][NextTick]_vars

\* the part of the tick a call is in: 1 runAllAgents, 2 the conversation
\* append, 3 the reload and stamping, 4 over; 0 when not begun
Phase(task) ==
    CASE task.pc \in {"ra_run", "ai_load", "ai_save"} -> 1
      [] task.pc \in {"ac_load", "ac_save"} -> 2
      [] task.pc \in {"hb_load", "hb_save"} -> 3
      [] task.pc = "done" -> 4
      [] OTHER -> 0

RECURSIVE SumInsights(_, _)
SumInsights(results, i) ==
    IF i > Len(results) THEN 0
    ELSE Len(results[i].insights) + SumInsights(results, i + 1)

\* C14: a tick goes through runAllAgents, then the conversation append, then
\* the reload and stamping, in this order; insights are stored only during the
\* first; the second appends exactly one entry, of role agent, that carries the
\* number of results and the sum of their insights; monitors change only at the
\* end of the third, and then every stored monitor has lastCheckedAt equal to the
\* time of that step
C14_TickOrder ==
    [][\A t \in Slots :
          tasks'[t].op = "tick"
          => LET a == tasks[t]
                 b == tasks'[t]
             IN /\ \/ Phase(b) \in {Phase(a), Phase(a) + 1}
                   \/ Phase(a) = 0 /\ Phase(b) = 2 /\ EmptyProfile(loadMemory.user)
                /\ Phase(b) >= 1
                /\ Phase(b) >= 2 => b.queue = <<>>
                /\ Phase(a) >= 2 => b.results = a.results
                /\ file'.insights # file.insights => Phase(a) = 1
                /\ file'.conversations # file.conversations
                   <=> Phase(a) = 2 /\ Phase(b) = 3
                /\ Phase(a) = 2 /\ Phase(b) = 3
                   => LET n == Len(file'.conversations)
                      IN /\ n = Len(file.conversations) + 1
                         /\ SubSeq(file'.conversations, 1, n - 1) = file.conversations
                         /\ file'.conversations[n].role = "agent"
                         /\ file'.conversations[n].content =
                               <<"Heartbeat ran", Len(a.results),
                                 SumInsights(a.results, 1)>>
                /\ file'.monitors # file.monitors => Phase(a) = 3 /\ Phase(b) = 4
                /\ Phase(a) = 3 /\ Phase(b) = 4
                   => /\ Len(file'.monitors) = Len(file.monitors)
                      /\ \A i \in 1..Len(file'.monitors) :
                            /\ file'.monitors[i].lastCheckedAt = clock
                            /\ file'.monitors[i].id = file.monitors[i].id
                            /\ file'.monitors[i].value = file.monitors[i].value]_vars

\* C14 witness: a tick on the profile with keyword CRM is over: an insight is
\* stored, the one conversation entry counts one result with one insight, and
\* both monitors carry the time of the stamping, later than the earlier check
C14_Witness ==
    \E t \in Slots :
        /\ tasks[t].op = "tick" /\ tasks[t].pc = "done"
        /\ file.user.keywords = <<"CRM">>
        /\ Len(file.insights) = 2
        /\ Len(file.conversations) = 1
        /\ file.conversations[1].content = <<"Heartbeat ran", 2, 2>>
        /\ Len(file.monitors) = 2
        /\ file.monitors[1].lastCheckedAt = 1
        /\ file.monitors[2].lastCheckedAt = 1

(***************************************************************************)
(* SpecTickFail: heartbeat ticks, one at a time, on a store whose file may *)
(* be damaged and whose path may become unwritable at any moment           *)
(***************************************************************************)
MaxFailTicks == 2

\* another process leaves the state file unparseable
FileDamaged ==
    /\ fileExists /\ ~LoadThrows
    /\ file' = Corrupt
    /\ UNCHANGED <<fileExists, writable, clock, heartbeatInterval, timers, tasks, budget, defaultState>>

\* the store path becomes unwritable
PathLocked ==
    /\ writable
    /\ writable' = FALSE
    /\ UNCHANGED <<fileExists, file, clock, heartbeatInterval, timers, tasks, budget, defaultState>>

InitTickFail ==
    /\ fileExists = TRUE
    /\ \E u \in TickProfiles, m \in TickMonitors :
          file = [DEFAULT_STATE EXCEPT !.user = u, !.monitors = m]
    /\ writable = TRUE
    /\ defaultState = DEFAULT_STATE
    /\ clock = LoadTime
    /\ heartbeatInterval = DefaultInterval
    /\ timers = <<DefaultInterval>>
    /\ tasks = [t \in Slots |-> IdleTask]
    /\ budget = MaxFailTicks

NextTickFail ==
    \/ FileDamaged
    \/ PathLocked
    \/ TimerFire(1)
    \/ RunAgentRun(1)
    \/ AddInsightLoad(1)
    \/ AddInsightSave(1, SpecSuffixes)
    \/ AddConversationLoad(1)
    \/ AddConversationSave(1)
    \/ StampLoad(1)
    \/ StampSave(1)
    \/ Return(1)

SpecTickFail == InitTickFail /\ [][NextTickFail]_vars

\* the tick in slot t ended on an error
FailedTick(t) ==
    tasks[t].op = "tick" /\ tasks[t].pc = "done" /\ tasks[t].ret # NoRet

\* C15: an error in a step of a tick never leaves the tick: the tick ends there;
\* the timer armed by start is still armed and the heartbeat reports running;
\* as soon as the callback can be started again the timer can fire
C15_FailingTickKeepsSchedule ==
    /\ \A t \in Slots : tasks[t].op = "tick" => tasks[t].pc # "threw"
    /\ (\E t \in Slots : FailedTick(t))
       => /\ timers = <<DefaultInterval>>
          /\ isHeartbeatRunning(heartbeatInterval)
          /\ \A u \in Slots : CanStart(u) => ENABLED TimerFire(u)

\* C15 witness: the path is unwritable and nothing was stored, so the first
\* tick failed on a save; the second tick has begun and is running its agents
C15_Witness ==
    /\ ~LoadThrows /\ ~writable
    /\ file.insights = <<>> /\ file.conversations = <<>>
    /\ budget = MaxFailTicks - 2
    /\ tasks[1].op = "tick" /\ tasks[1].pc = "ra_run"
    /\ timers = <<DefaultInterval>>

(***************************************************************************)
(* SpecStop: an armed heartbeat, its ticks in slot 1, and the heartbeat    *)
(* tool called with stop and start in slot 2 while a tick is in flight or  *)
(* its result not yet taken                                                *)
(***************************************************************************)
MaxStopCalls == 3

InitStop ==
    /\ fileExists = TRUE
    /\ file = [DEFAULT_STATE EXCEPT
                  !.user = [DEFAULT_STATE.user EXCEPT !.keywords = <<"CRM">>],
                  !.monitors = <<NewMonitor("keyword", "CRM review", LoadTime)>>]
    /\ writable = TRUE
    /\ defaultState = DEFAULT_STATE
    /\ clock = LoadTime
    /\ heartbeatInterval = DefaultInterval
    /\ timers = <<DefaultInterval>>
    /\ tasks = [t \in Slots |-> IdleTask]
    /\ budget = MaxStopCalls

NextStop ==
    \/ \E action \in {"start", "stop"} : CallHeartbeat(2, action, DefaultInterval)
    \/ TimerFire(1)
    \/ RunAgentRun(1)
    \/ AddInsightLoad(1)
    \/ AddInsightSave(1, SpecSuffixes)
    \/ AddConversationLoad(1)
    \/ AddConversationSave(1)
    \/ StampLoad(1)
    \/ StampSave(1)
    \/ \E t \in Slots : Return(t)

SpecStop == InitStop /\ [][NextStop]_vars

\* the next step of the tick in slot t can be taken
TickStepEnabled(t) ==
    CASE tasks[t].pc = "ra_run" -> ENABLED RunAgentRun(t)
      [] tasks[t].pc = "ai_load" -> ENABLED AddInsightLoad(t)
      [] tasks[t].pc = "ai_save" -> ENABLED AddInsightSave(t, SpecSuffixes)
      [] tasks[t].pc = "ac_load" -> ENABLED AddConversationLoad(t)
      [] tasks[t].pc = "ac_save" -> ENABLED AddConversationSave(t)
      [] tasks[t].pc = "hb_load" -> ENABLED StampLoad(t)
      [] tasks[t].pc = "hb_save" -> ENABLED StampSave(t)
      [] OTHER -> TRUE

\* C16: no tick begins while the heartbeat is stopped; a stop disarms the timer
\* and touches neither the store nor a tick in flight; and every tick in flight
\* can take its next step whether or not the heartbeat is running
C16_StopLeavesTickInFlight ==
    /\ [][\A t \in Slots :
             (tasks[t].op = "idle" /\ tasks'[t].op = "tick")
             => isHeartbeatRunning(heartbeatInterval) /\ timers # <<>>]_vars
    /\ [][\A t \in Slots :
             (HeartbeatCalled(t, "stop") /\ isHeartbeatRunning(heartbeatInterval))
             => /\ timers' = <<>> /\ ~isHeartbeatRunning(heartbeatInterval')
                /\ file' = file
                /\ \A u \in Slots \ {t} : tasks'[u] = tasks[u]]_vars
    /\ [](\A t \in Slots : tasks[t].op = "tick" => TickStepEnabled(t))

\* C16 witness: a stop, made while the tick of slot 1 was in flight, has
\* returned true, the heartbeat is not running, and the tick is on its way to
\* store an insight, with the conversation append and the stamping still ahead
C16_Witness ==
    /\ tasks[1].op = "tick" /\ tasks[1].pc = "ai_save"
    /\ file.insights = <<>> /\ file.conversations = <<>>
    /\ tasks[2].op = "heartbeat" /\ tasks[2].pc = "done"
    /\ tasks[2].arg.action = "stop" /\ tasks[2].ret.stopped = TRUE
    /\ budget = MaxStopCalls - 2
    /\ timers = <<>> /\ ~isHeartbeatRunning(heartbeatInterval)

(***************************************************************************)
(* SpecLost: addInsight tool calls and heartbeat ticks interleaved on a    *)
(* store with an empty profile and one monitor                             *)
(***************************************************************************)
MaxLostCalls == 2

InitLost ==
    /\ fileExists = TRUE
    /\ file = [DEFAULT_STATE EXCEPT
                  !.monitors = <<NewMonitor("keyword", "CRM review", LoadTime)>>]
    /\ writable = TRUE
    /\ defaultState = DEFAULT_STATE
    /\ clock = LoadTime
    /\ heartbeatInterval = DefaultInterval
    /\ timers = <<DefaultInterval>>
    /\ tasks = [t \in Slots |-> IdleTask]
    /\ budget = MaxLostCalls

NextLost ==
    \/ ClockTick
    \/ \E t \in Slots, i \in SomeInsights : CallAddInsight(t, i)
    \/ \E t \in Slots : AddInsightSave(t, SpecSuffixes)
    \/ \E t \in Slots : TimerFire(t)
    \/ \E t \in Slots : AddConversationLoad(t)
    \/ \E t \in Slots : AddConversationSave(t)
    \/ \E t \in Slots : StampLoad(t)
    \/ \E t \in Slots : StampSave(t)
    \/ \E t \in Slots : Return(t)

SpecLost == InitLost /\ [][NextLost]_vars

StoreFields == {"user", "monitors", "insights", "conversations"}

\* the part of the store the pending save of a call changes
OwnField(task) ==
    CASE task.pc = "ai_save" -> "insights"
      [] task.pc = "ac_save" -> "conversations"
      [] task.pc = "hb_save" -> "monitors"

\* the call in slot u saves a state it loaded before the latest save of another
StaleSave(u) ==
    /\ tasks[u].pc \in {"ai_save", "ac_save", "hb_save"}
    /\ tasks'[u].pc # tasks[u].pc
    /\ file # tasks[u].st

\* C17: when a call saves a state it loaded before another call saved, the file
\* becomes the state it loaded plus its own change alone: every other part of
\* the store is as loaded, so what the other call had saved there is gone; the
\* save succeeds and the call goes on without an error
C17_LostUpdate ==
    [][\A u \in Slots :
          StaleSave(u)
          => LET own == OwnField(tasks[u])
                 st == tasks[u].st
             IN /\ \A f \in StoreFields \ {own} : file'[f] = st[f]
                /\ Len(file'[own]) = Len(st[own]) + (IF own = "monitors" THEN 0 ELSE 1)
                /\ \A i \in 1..Len(st[own]) :
                      IF own = "monitors" THEN file'[own][i].id = st[own][i].id
                      ELSE file'[own][i] = st[own][i]
                /\ tasks'[u].pc # "threw"
                /\ tasks'[u].op = "tick" /\ tasks'[u].pc = "done"
                   => tasks'[u].ret = NoRet]_vars

\* C17 witness: addInsight has returned its stored entry and a tick has ended
\* without an error, and the file holds the tick's conversation entry and its
\* stamp but no insight: the tick saved a state loaded before addInsight saved
C17_Witness ==
    \E t, u \in Slots :
        /\ tasks[t].op = "addInsight" /\ tasks[t].pc = "done"
        /\ tasks[t].ret.agentId = "trend-spotter"
        /\ tasks[u].op = "tick" /\ tasks[u].pc = "done" /\ tasks[u].ret = NoRet
        /\ file.insights = <<>>
        /\ Len(file.conversations) = 1
        /\ file.monitors[1].lastCheckedAt # Never

(***************************************************************************)
(* SpecCorrupt: every store operation, runAgent, runAllAgents and the      *)
(* heartbeat tick, on a state file that parses and on one that does not    *)
(***************************************************************************)
MaxCorruptCalls == 2

InitCorrupt ==
    /\ fileExists = TRUE
    /\ \/ file = Corrupt
       \/ file = [DEFAULT_STATE EXCEPT
                     !.monitors = <<NewMonitor("keyword", "CRM review", LoadTime)>>]
    /\ writable = TRUE
    /\ defaultState = DEFAULT_STATE
    /\ clock = LoadTime
    /\ heartbeatInterval = DefaultInterval
    /\ timers = <<DefaultInterval>>
    /\ tasks = [t \in Slots |-> IdleTask]
    /\ budget = MaxCorruptCalls

NextCorrupt ==
    \/ \E t \in Slots : CallAddMonitor(t, "keyword", "CRM review")
    \/ \E t \in Slots : CallAddMonitor(t, "channel", "UC123")
    \/ \E t \in Slots : AddMonitorSave(t)
    \/ \E t \in Slots : CallRemoveMonitor(t, MonitorId(LoadTime))
    \/ \E t \in Slots : RemoveMonitorSave(t)
    \/ \E t \in Slots, u \in SomeUpdates : CallUpdateUser(t, u)
    \/ \E t \in Slots, u \in SomeUpdates : CallConfigureUser(t, u)
    \/ \E t \in Slots : UpdateUserSave(t)
    \/ \E t \in Slots, i \in SomeInsights : CallAddInsight(t, i)
    \/ \E t \in Slots : AddInsightLoad(t)
    \/ \E t \in Slots : AddInsightSave(t, SpecSuffixes)
    \/ \E t \in Slots, c \in SomeConversations : CallAddConversation(t, c)
    \/ \E t \in Slots : AddConversationLoad(t)
    \/ \E t \in Slots : AddConversationSave(t)
    \/ \E t \in Slots :
          CallGetInsights(t, [agentId |-> Undefined, type |-> Undefined, limit |-> 0])
    \/ \E t \in Slots : CallRunAllAgents(t)
    \/ \E t \in Slots : CallRunAgent(t, "trend-spotter", [keywords |-> <<"CRM">>])
    \/ \E t \in Slots : RunAgentRun(t)
    \/ \E t \in Slots : TimerFire(t)
    \/ \E t \in Slots : StampLoad(t)
    \/ \E t \in Slots : StampSave(t)
    \/ \E t \in Slots : Return(t)

SpecCorrupt == InitCorrupt /\ [][NextCorrupt]_vars

\* the operations that begin with loadMemory
LoadingOps ==
    {"addMonitor", "removeMonitor", "updateUser", "configure_user", "addInsight",
     "addConversation", "getInsights", "runAllAgents"}

\* C18: while the state file exists and does not parse, no step writes the file;
\* every mutator, getInsights and runAllAgents called then fails with the parse
\* error to its caller, a tick begun then ends on the error it caught, and a
\* runAgent call fails as soon as it comes to store an insight
C18_CorruptFileNeverReplaced ==
    [][LoadThrows
       => /\ file' = file /\ fileExists' = fileExists
          /\ \A t \in Slots :
                /\ (tasks[t].op = "idle" /\ tasks'[t].op \in LoadingOps)
                   => tasks'[t].pc = "threw" /\ tasks'[t].ret = "SyntaxError"
                /\ (tasks[t].op = "idle" /\ tasks'[t].op = "tick")
                   => tasks'[t].pc = "done" /\ tasks'[t].ret = <<"logged", "SyntaxError">>
                /\ (tasks[t].pc = "ai_load" /\ tasks'[t].pc # "ai_load")
                   => tasks'[t].pc = "threw"
                /\ tasks'[t].pc \notin {"am_save", "rm_save", "uu_save", "ai_save",
                                        "ac_save", "hb_save"}]_vars

\* C18 witness: on the unparseable file an updateUser call was rejected and a
\* tick has ended on the error it caught, and the file is as it was
C18_Witness ==
    /\ LoadThrows /\ file = Corrupt
    /\ tasks[1].op = "updateUser" /\ tasks[1].pc = "threw"
    /\ tasks[2].op = "tick" /\ tasks[2].pc = "done"
    /\ tasks[2].ret = <<"logged", "SyntaxError">>

(***************************************************************************)
(* SpecMissing: store operations and ticks from a start without state file,*)
(* on a path that takes writes and on one that does not                    *)
(***************************************************************************)
MaxMissingCalls == 3

InitMissing ==
    /\ fileExists = FALSE
    /\ file = DEFAULT_STATE
    /\ writable \in BOOLEAN
    /\ defaultState = DEFAULT_STATE
    /\ clock = LoadTime
    /\ heartbeatInterval = DefaultInterval
    /\ timers = <<DefaultInterval>>
    /\ tasks = [t \in Slots |-> IdleTask]
    /\ budget = MaxMissingCalls

NextMissing ==
    \/ ClockTick
    \/ \E t \in Slots : CallAddMonitor(t, "keyword", "CRM review")
    \/ \E t \in Slots : AddMonitorSave(t)
    \/ \E t \in Slots : CallRemoveMonitor(t, MonitorId(LoadTime))
    \/ \E t \in Slots : RemoveMonitorSave(t)
    \/ \E t \in Slots, u \in SomeUpdates : CallUpdateUser(t, u)
    \/ \E t \in Slots : UpdateUserSave(t)
    \/ \E t \in Slots, i \in SomeInsights : CallAddInsight(t, i)
    \/ \E t \in Slots : AddInsightSave(t, SpecSuffixes)
    \/ \E t \in Slots, c \in SomeConversations : CallAddConversation(t, c)
    \/ \E t \in Slots : AddConversationLoad(t)
    \/ \E t \in Slots : AddConversationSave(t)
    \/ \E t \in Slots :
          CallGetInsights(t, [agentId |-> Undefined, type |-> Undefined, limit |-> 0])
    \/ \E t \in Slots : TimerFire(t)
    \/ \E t \in Slots : StampLoad(t)
    \/ \E t \in Slots : StampSave(t)
    \/ \E t \in Slots : Return(t)

SpecMissing == InitMissing /\ [][NextMissing]_vars

\* a state whose seven lists are all empty
EmptyState(state) ==
    /\ EmptyProfile(state.user) /\ state.user.notes = <<>>
    /\ state.monitors = <<>> /\ state.insights = <<>> /\ state.conversations = <<>>

SavePcs == {"am_save", "rm_save", "uu_save", "ai_save", "ac_save", "hb_save"}

\* C19: while no state file exists loadMemory does not throw and returns a state
\* whose seven lists are empty, whatever earlier calls did to the states they
\* had loaded; every call that loads then holds such a state and none is
\* rejected at its load
C19_LoadOnMissingFile ==
    /\ [](~fileExists => ~LoadThrows /\ EmptyState(loadMemory))
    /\ [][~fileExists
          => \A t \in Slots :
                /\ (tasks[t].pc \notin SavePcs /\ tasks'[t].pc \in SavePcs)
                   => EmptyState(tasks'[t].st)
                /\ (tasks[t].pc \in {"idle", "ac_load", "hb_load"}
                    /\ tasks'[t].pc \in {"done", "threw"})
                   => tasks'[t].pc = "done" /\ tasks'[t].ret # <<"logged", "SyntaxError">>]_vars

\* C19 witness: with no state file, one call changed the state it had loaded and
\* failed to write it, and another call holds a freshly loaded state
C19_Witness ==
    /\ ~fileExists
    /\ tasks[1].op = "updateUser" /\ tasks[1].pc = "threw" /\ tasks[1].ret = "EACCES"
    /\ tasks[2].op = "addMonitor" /\ tasks[2].pc = "am_save"
    /\ EmptyState(tasks[2].st)

\* C20: any two distinct stored monitors have different ids, also when two
\* targets with different (type, value) are added at one value of the clock
C20_MonitorIdsUnique ==
    \A i, j \in 1..Len(file.monitors) :
        i # j => file.monitors[i].id # file.monitors[j].id

(***************************************************************************)
(* sentiment-analyst.ts: classifyComment                                   *)
(* a string is the sequence of its characters                              *)
(***************************************************************************)
UpperCase ==
    <<"A", "B", "C", "D", "E", "F", "G", "H", "I", "J", "K", "L", "M",
      "N", "O", "P", "Q", "R", "S", "T", "U", "V", "W", "X", "Y", "Z">>
LowerCase ==
    <<"a", "b", "c", "d", "e", "f", "g", "h", "i", "j", "k", "l", "m",
      "n", "o", "p", "q", "r", "s", "t", "u", "v", "w", "x", "y", "z">>

\* the lower-case form of one character
LowerChar(c) ==
    IF \E k \in 1..26 : UpperCase[k] = c
    THEN LowerCase[CHOOSE k \in 1..26 : UpperCase[k] = c]
    ELSE c

\* String.prototype.toLowerCase
toLowerCase(text) == [i \in 1..Len(text) |-> LowerChar(text[i])]

\* whether s occurs in text at position i
RECURSIVE MatchesAt(_, _, _, _)
MatchesAt(text, s, i, k) ==
    IF k > Len(s) THEN TRUE
    ELSE IF i + k - 1 > Len(text) THEN FALSE
    ELSE text[i + k - 1] = s[k] /\ MatchesAt(text, s, i, k + 1)

\* String.prototype.includes: the first position onwards is scanned for s
RECURSIVE IncludesFrom(_, _, _)
IncludesFrom(text, s, i) ==
    IF i + Len(s) - 1 > Len(text) THEN FALSE
    ELSE IF MatchesAt(text, s, i, 1) THEN TRUE
    ELSE IncludesFrom(text, s, i + 1)

includes(text, s) == IncludesFrom(text, s, 1)

negativeSignals ==
    {<<"h", "a", "t", "e">>,
     <<"w", "o", "r", "s", "t">>,
     <<"t", "e", "r", "r", "i", "b", "l", "e">>,
     <<"d", "i", "s", "a", "p", "p", "o", "i", "n", "t", "e", "d">>,
     <<"b", "r", "o", "k", "e", "n">>,
     <<"b", "u", "g">>,
     <<"s", "u", "c", "k", "s">>,
     <<"a", "w", "f", "u", "l">>,
     <<"p", "o", "o", "r">>,
     <<"b", "a", "d">>,
     <<"f", "r", "u", "s", "t", "r", "a", "t">>,
     <<"a", "n", "n", "o", "y", "i", "n", "g">>,
     <<"u", "s", "e", "l", "e", "s", "s">>}

positiveSignals ==
    {<<"l", "o", "v", "e">>,
     <<"a", "m", "a", "z", "i", "n", "g">>,
     <<"g", "r", "e", "a", "t">>,
     <<"b", "e", "s", "t">>,
     <<"a", "w", "e", "s", "o", "m", "e">>,
     <<"e", "x", "c", "e", "l", "l", "e", "n", "t">>,
     <<"p", "e", "r", "f", "e", "c", "t">>,
     <<"h", "e", "l", "p", "f", "u", "l">>,
     <<"f", "a", "n", "t", "a", "s", "t", "i", "c">>}

requestSignals ==
    {<<"w", "i", "s", "h">>,
     <<"p", "l", "e", "a", "s", "e", " ", "a", "d", "d">>,
     <<"s", "h", "o", "u", "l", "d", " ", "h", "a", "v", "e">>,
     <<"n", "e", "e", "d">>,
     <<"f", "e", "a", "t", "u", "r", "e">>,
     <<"w", "o", "u", "l", "d", " ", "b", "e", " ", "n", "i", "c", "e">>,
     <<"c", "a", "n", " ", "y", "o", "u", " ", "a", "d", "d">>,
     <<"s", "u", "g", "g", "e", "s", "t", "i", "o", "n">>,
     <<"h", "o", "p", "e", " ", "t", "h", "e", "y">>}

\* signals.some(s => lower.includes(s))
SomeSignal(signals, lower) == \E s \in signals : includes(lower, s)

\* a slip in the order of the tests: negative words are looked for first
classifyCommentNegativeFirst(text) ==
    LET lower == toLowerCase(text)
    IN IF SomeSignal(negativeSignals, lower) THEN "negative"
       ELSE IF SomeSignal(requestSignals, lower) THEN "request"
       ELSE IF SomeSignal(positiveSignals, lower) THEN "positive"
       ELSE "neutral"

classifyComment(text) ==
    LET lower == toLowerCase(text)
    IN IF SomeSignal(requestSignals, lower) THEN "request"
       ELSE IF SomeSignal(negativeSignals, lower) THEN "negative"
       ELSE IF SomeSignal(positiveSignals, lower) THEN "positive"
       ELSE "neutral"

\* the handler-free call of the function on one comment text
CallClassifyComment(t, text) ==
    Start(t, Done(NewTask("classifyComment", "done", text), classifyComment(text)))

(***************************************************************************)
(* SpecClassify: classifyComment on texts put together from fragments      *)
(***************************************************************************)
MaxFragments == 3
MaxClassifyCalls == 1

Fragments ==
    {<<"w", "i", "s", "h">>,
     <<"W", "i", "S", "h">>,
     <<"P", "l", "e", "a", "s", "e", " ">>,
     <<"a", "d", "d">>,
     <<"t", "e", "r", "r", "i", "b", "l", "e">>,
     <<"B", "A", "D">>,
     <<"b", "u">>,
     <<"g">>,
     <<"l", "o", "v", "e">>,
     <<"G", "r", "e", "a", "t">>,
     <<"o", "k", " ">>,
     <<"n", "e", "e">>,
     <<"d">>}

RECURSIVE TextsOf(_)
TextsOf(n) ==
    IF n = 0 THEN {<<>>}
    ELSE LET shorter == TextsOf(n - 1)
         IN shorter \cup {a \o f : a \in shorter, f \in Fragments}

CommentTexts == TextsOf(MaxFragments)

InitClassify ==
    /\ fileExists = FALSE
    /\ file = DEFAULT_STATE
    /\ writable = TRUE
    /\ defaultState = DEFAULT_STATE
    /\ clock = LoadTime
    /\ heartbeatInterval = DefaultInterval
    /\ timers = <<>>
    /\ tasks = [t \in Slots |-> IdleTask]
    /\ budget = MaxClassifyCalls

NextClassify ==
    \/ \E text \in CommentTexts : CallClassifyComment(1, text)
    \/ Return(1)

SpecClassify == InitClassify /\ [][NextClassify]_vars

\* text contains s at some position, letter case aside
ContainsIgnoringCase(text, s) ==
    \E i \in 1..(Len(text) - Len(s) + 1) :
        \A k \in 1..Len(s) : LowerChar(text[i + k - 1]) = s[k]

ContainsAny(text, signals) == \E s \in signals : ContainsIgnoringCase(text, s)

\* C21: classifyComment returns request when the text contains a request phrase,
\* otherwise negative when it contains a negative word, otherwise positive when
\* it contains a positive word, otherwise neutral, letter case aside
C21_SentimentPriority ==
    \A t \in Slots :
        tasks[t].op = "classifyComment"
        => LET text == tasks[t].arg
           IN tasks[t].ret =
                 IF ContainsAny(text, requestSignals) THEN "request"
                 ELSE IF ContainsAny(text, negativeSignals) THEN "negative"
                 ELSE IF ContainsAny(text, positiveSignals) THEN "positive"
                 ELSE "neutral"

\* C21 witness: a comment with a request phrase and a negative word, both in
\* mixed case, was classified as request
C21_Witness ==
    /\ tasks[1].op = "classifyComment"
    /\ tasks[1].arg = <<"W", "i", "S", "h">> \o <<"B", "A", "D">>
    /\ tasks[1].ret = "request"

(***************************************************************************)
(* trend-spotter.ts: the recency filter of run                             *)
(* instants are milliseconds, counted from the instant the model calls 0   *)
(***************************************************************************)
DayMs == 24 * 60 * 60 * 1000

\* new Date(v.publishedAt): an instant, or an invalid date (getTime() is NaN)
InvalidDate == [valid |-> FALSE, ms |-> 0]
DateOf(ms) == [valid |-> TRUE, ms |-> ms]

\* new Date(Date.now() - 14 * 24 * 60 * 60 * 1000)
twoWeeksAgo(now) == DateOf(now - 14 * 24 * 60 * 60 * 1000)

\* a slip in the comparison: the boundary instant is taken as recent
LaterThanOrAt(a, b) == a.valid /\ b.valid /\ a.ms >= b.ms

\* a > b on two Date objects: false when either is invalid
LaterThan(a, b) == a.valid /\ b.valid /\ a.ms > b.ms

\* result.videos.filter(v => new Date(v.publishedAt) > twoWeeksAgo)
recentVideos(videos, now) ==
    LET Recent(v) == LaterThan(v.publishedAt, twoWeeksAgo(now))
    IN Filter(videos, Recent)

\* the insight of one keyword; its title holds the keyword, result.totalResults
\* and recentVideos.length
TrendInsight(keyword, result, now) ==
    [type |-> "trend",
     title |-> [keyword |-> keyword, total |-> result.totalResults,
                recent |-> Len(recentVideos(result.videos, now))],
     source |-> keyword]

\* one turn of the loop of run whose search succeeded with result
CallTrendOfKeyword(t, keyword, result) ==
    Start(t, Done(NewTask("trendOfKeyword", "done", result),
                  TrendInsight(keyword, result, clock)))

(***************************************************************************)
(* SpecTrend: the recency filter on search results whose videos were       *)
(* published around the two-week boundary                                  *)
(***************************************************************************)
MaxVideos == 2
MaxTrendCalls == 1

\* publish instants 15, 14 and 13 days before now, one millisecond to either
\* side of the boundary, now itself, one day ahead of now, and an invalid date
PublishDates(now) ==
    {DateOf(now - 15 * DayMs), DateOf(now - 14 * DayMs - 1), DateOf(now - 14 * DayMs),
     DateOf(now - 14 * DayMs + 1), DateOf(now - 13 * DayMs), DateOf(now),
     DateOf(now + DayMs), InvalidDate}

VideoLists(now) ==
    UNION {[1..n -> [title : {"video"}, publishedAt : PublishDates(now)]] : n \in 0..MaxVideos}

SearchResults(now) ==
    [totalResults : {Len(v) : v \in VideoLists(now)} \cup {1000}, videos : VideoLists(now)]

InitTrend ==
    /\ fileExists = FALSE
    /\ file = DEFAULT_STATE
    /\ writable = TRUE
    /\ defaultState = DEFAULT_STATE
    /\ clock \in {0, DayMs}
    /\ heartbeatInterval = DefaultInterval
    /\ timers = <<>>
    /\ tasks = [t \in Slots |-> IdleTask]
    /\ budget = MaxTrendCalls

NextTrend ==
    \/ \E result \in SearchResults(clock) : CallTrendOfKeyword(1, "CRM", result)
    \/ Return(1)

SpecTrend == InitTrend /\ [][NextTrend]_vars

\* how long before now the video was published
Age(v, now) == now - v.publishedAt.ms

\* C22: the recent count in the title is the number of returned videos published
\* less than 14 x 24 hours before now; a single video published 13 days ago
\* gives 1, one published 15 days ago gives 0, one published exactly 14 days
\* ago gives 0
C22_TrendRecencyWindow ==
    \A t \in Slots :
        tasks[t].op = "trendOfKeyword"
        => LET videos == tasks[t].arg.videos
               recent == tasks[t].ret.title.recent
               young == {i \in 1..Len(videos) :
                            /\ videos[i].publishedAt.valid
                            /\ Age(videos[i], clock) < 14 * 24 * 60 * 60 * 1000}
           IN /\ recent = Cardinality(young)
              /\ Len(videos) = 1 /\ videos[1].publishedAt.valid
                 => /\ Age(videos[1], clock) = 13 * DayMs => recent = 1
                    /\ Age(videos[1], clock) = 15 * DayMs => recent = 0
                    /\ Age(videos[1], clock) = 14 * DayMs => recent = 0

\* C22 witness: of two returned videos, one published 13 days ago and one
\* exactly 14 days ago, one was counted
C22_Witness ==
    /\ tasks[1].op = "trendOfKeyword" /\ tasks[1].pc = "done"
    /\ Len(tasks[1].arg.videos) = 2
    /\ Age(tasks[1].arg.videos[1], clock) = 13 * DayMs
    /\ Age(tasks[1].arg.videos[2], clock) = 14 * DayMs
    /\ tasks[1].arg.videos[2].publishedAt.valid
    /\ tasks[1].ret.title.recent = 1

\* the channel ids and keywords the agents a tick has run were given, each of
\* which they passed to one external call
ValuesCalled(task) ==
    UNION {LET params == StageParams(task.user, stage)
           IN UNION {{params[key][i] : i \in 1..Len(params[key])} : key \in DOMAIN params} :
           stage \in {k \in 1..LastStage : \E n \in 1..Len(task.ran) : task.ran[n] = StageAgent(k)}}

\* C23: whenever a tick stamps a monitor's lastCheckedAt, an agent of that tick
\* has passed the monitor's value to an external call
C23_StampedMonitorsWereChecked ==
    [][\A t \in Slots :
          (tasks[t].op = "tick" /\ tasks[t].pc = "hb_save" /\ tasks'[t].pc = "done")
          => \A i \in 1..Len(file'.monitors) :
                (file'.monitors[i].lastCheckedAt = clock
                 /\ Len(file.monitors) >= i
                 /\ file.monitors[i].lastCheckedAt # clock)
                => file'.monitors[i].value \in ValuesCalled(tasks[t])]_vars

(***************************************************************************)
(* SpecRunTool: the run_agent tool with params omitted, empty and given,   *)
(* over a filled profile, an empty one and a file that does not parse      *)
(***************************************************************************)
MaxRunToolCalls == 1

RunToolInputs ==
    [agent_id : AgentIds]
    \cup [agent_id : AgentIds,
          params : {<<>>, [keywords |-> <<"pricing">>], [channelIds |-> <<"UC9">>],
                    [videoIds |-> <<"v1">>]}]

RunToolUser ==
    [DEFAULT_STATE.user EXCEPT !.keywords = <<"CRM">>, !.competitors = <<"Acme">>,
                              !.trackedChannels = <<"UC123">>]

InitRunTool ==
    /\ fileExists = TRUE
    /\ file \in {DEFAULT_STATE, [DEFAULT_STATE EXCEPT !.user = RunToolUser], Corrupt}
    /\ writable = TRUE
    /\ defaultState = DEFAULT_STATE
    /\ clock = LoadTime
    /\ heartbeatInterval = DefaultInterval
    /\ timers = <<>>
    /\ tasks = [t \in Slots |-> IdleTask]
    /\ budget = MaxRunToolCalls

NextRunTool ==
    \/ \E input \in RunToolInputs : CallRunAgentTool(1, input)
    \/ RunAgentRun(1)
    \/ AddInsightLoad(1)
    \/ AddInsightSave(1, SpecSuffixes)
    \/ AddConversationLoad(1)
    \/ AddConversationSave(1)
    \/ Return(1)

SpecRunTool == InitRunTool /\ [][NextRunTool]_vars

\* C24: run_agent called without params or with empty params runs the agent with
\* the stored tracked channels as channelIds, the stored keywords followed by
\* the stored competitors as keywords and no videoIds; called with non-empty
\* params it hands them to the agent as given, whatever the state file holds
C24_RunAgentParamDefaults ==
    [][\A t \in Slots :
          (tasks[t].op = "idle" /\ tasks'[t].op = "run_agent")
          => LET input == tasks'[t].arg
                 task == tasks'[t]
                 running == task.pc = "ra_run" /\ task.agent = input.agent_id
                 refused(error) == task.pc = "done" /\ task.ret = ToolError(error)
             IN IF "params" \in DOMAIN input /\ input.params # <<>>
                THEN /\ task.params = input.params
                     /\ task.user = NoUser
                     /\ running \/ refused("TypeError")
                ELSE IF LoadThrows THEN refused("SyntaxError")
                ELSE /\ task.params["channelIds"] = file.user.trackedChannels
                     /\ task.params["keywords"] = file.user.keywords \o file.user.competitors
                     /\ task.params["videoIds"] = <<>>
                     /\ DOMAIN task.params = {"channelIds", "keywords", "videoIds"}
                     /\ running]_vars

\* C24 witness: lead-qualifier, called without params over the filled profile,
\* has run on the keyword followed by the competitor and made its searches
C24_Witness ==
    /\ ~LoadThrows /\ file.user = RunToolUser
    /\ tasks[1].op = "run_agent" /\ "params" \notin DOMAIN tasks[1].arg
    /\ tasks[1].agent = "lead-qualifier"
    /\ tasks[1].params["keywords"] = <<"CRM", "Acme">>
    /\ tasks[1].ran = <<"lead-qualifier">> /\ tasks[1].ext >= 2

\* C25: the interval a reply to a heartbeat start reports, whether the heartbeat
\* was started by the call or was running already, is the interval of the
\* timer that is armed
C25_ReportedIntervalInForce ==
    [][\A t \in Slots :
          (tasks[t].op = "idle" /\ tasks'[t].op = "heartbeat"
           /\ tasks'[t].arg.action = "start")
          => /\ Len(timers') = 1
             /\ tasks'[t].ret.intervalMinutes = timers'[1]]_vars

\* the insights of a list of results, each tagged with the agent of its result
RECURSIVE TaggedInsights(_)
TaggedInsights(results) ==
    IF results = <<>> THEN <<>>
    ELSE LET r == Head(results)
         IN [i \in 1..Len(r.insights) |-> TagInsight(r.insights[i], r.agentId)]
            \o TaggedInsights(Tail(results))

\* C26: the save that ends a tick run on its own changes neither the insight log
\* nor the conversation log nor the profile of the file, so that after the tick
\* the log ends with the insights of the tick's agents, in the order they were
\* returned, and the conversation log ends with the tick's summary entry
C26_TickKeepsItsResults ==
    [][\A t \in Slots :
          (tasks[t].op = "tick" /\ tasks[t].pc = "hb_save" /\ tasks'[t].pc = "done"
           /\ tasks'[t].ret = NoRet)
          => LET own == TaggedInsights(tasks[t].results)
                 log == file'.insights
                 talk == file'.conversations
                 base == Len(log) - Len(own)
             IN /\ file'.insights = file.insights
                /\ file'.conversations = file.conversations
                /\ file'.user = file.user
                /\ base >= 0
                /\ \A i \in 1..Len(own) :
                      /\ log[base + i].agentId = own[i].agentId
                      /\ log[base + i].type = own[i].type
                      /\ log[base + i].title = own[i].title
                /\ talk # <<>>
                /\ talk[Len(talk)].agentId = "heartbeat"
                /\ talk[Len(talk)].content =
                      <<"Heartbeat ran", Len(tasks[t].results), Len(own)>>]_vars

\* C26 witness: a tick over the profile with competitor Acme is over, two agents
\* have run, and the file holds the insights they returned, the summary entry
\* and the stamped monitor
C26_Witness ==
    /\ tasks[1].op = "tick" /\ tasks[1].pc = "done" /\ tasks[1].ret = NoRet
    /\ file.user.competitors = <<"Acme">>
    /\ Len(tasks[1].results) = 2
    /\ TotalInsights(tasks[1].results) >= 2
    /\ Len(file.insights) = TotalInsights(tasks[1].results)
    /\ Len(file.conversations) = 1
    /\ Len(file.monitors) >= 1 /\ file.monitors[1].lastCheckedAt = clock

(***************************************************************************)
(* SpecCaps: interleaved store calls and heartbeat ticks over logs that    *)
(* are at their caps or one entry below                                    *)
(***************************************************************************)
MaxCapCalls == 2

\* a stored insight log and a stored conversation log of n entries
FullInsights(n) == [k \in 1..n |-> NewInsight(NthInsight(k), LoadTime, "k3f9")]
FullConversations(n) ==
    [k \in 1..n |-> [role |-> "user", agentId |-> Undefined, content |-> k,
                     timestamp |-> LoadTime]]

InitCaps ==
    /\ fileExists = TRUE
    /\ \E i \in {MAX_INSIGHTS - 1, MAX_INSIGHTS},
          c \in {MAX_CONVERSATIONS - 1, MAX_CONVERSATIONS} :
          file = [DEFAULT_STATE EXCEPT
                     !.user = [DEFAULT_STATE.user EXCEPT !.trackedChannels = <<"UC123">>],
                     !.insights = FullInsights(i),
                     !.conversations = FullConversations(c)]
    /\ writable = TRUE
    /\ defaultState = DEFAULT_STATE
    /\ clock = LoadTime
    /\ heartbeatInterval = DefaultInterval
    /\ timers = <<DefaultInterval>>
    /\ tasks = [t \in Slots |-> IdleTask]
    /\ budget = MaxCapCalls

NextCaps ==
    \/ \E t \in Slots, i \in SomeInsights : CallAddInsight(t, i)
    \/ \E t \in Slots : AddInsightLoad(t)
    \/ \E t \in Slots : AddInsightSave(t, SpecSuffixes)
    \/ \E t \in Slots, c \in SomeConversations : CallAddConversation(t, c)
    \/ \E t \in Slots : AddConversationLoad(t)
    \/ \E t \in Slots : AddConversationSave(t)
    \/ \E t \in Slots, u \in SomeUpdates : CallUpdateUser(t, u)
    \/ \E t \in Slots : UpdateUserSave(t)
    \/ \E t \in Slots : TimerFire(t)
    \/ \E t \in Slots : RunAgentRun(t)
    \/ \E t \in Slots : StampLoad(t)
    \/ \E t \in Slots : StampSave(t)
    \/ \E t \in Slots : Return(t)

SpecCaps == InitCaps /\ [][NextCaps]_vars

\* C27: the stored insight log never holds more than 500 entries and the stored
\* conversation log never more than 200
C27_CapsAlways ==
    /\ Len(file.insights) <= 500
    /\ Len(file.conversations) <= 200

\* C27 witness: both logs are at their caps after entries were pushed to full
\* logs: the oldest entry of each is gone and the newest is the last
C27_Witness ==
    /\ Len(file.insights) = 500 /\ file.insights[1].title = 2
    /\ file.insights[500].title = <<"trend", "CRM">>
    /\ Len(file.conversations) = 200 /\ file.conversations[1].content = 2
    /\ file.conversations[200].content = <<"hello">>

(***************************************************************************)
(* SpecFrame: the five mutators called one after the other, none           *)
(* overlapping another, from no file and from a store with every part      *)
(* filled                                                                  *)
(***************************************************************************)
MaxFrameCalls == 3

\* a store written by an earlier run of the server
FrameState ==
    [user |-> [DEFAULT_STATE.user EXCEPT !.industry = "Retail", !.competitors = <<"Acme">>],
     monitors |-> <<NewMonitor("keyword", "CRM review", LoadTime - 2),
                    NewMonitor("channel", "UC123", LoadTime - 1)>>,
     insights |-> FullInsights(2),
     conversations |-> FullConversations(2)]

InitFrame ==
    /\ \/ fileExists = FALSE /\ file = DEFAULT_STATE
       \/ fileExists = TRUE /\ file = FrameState
    /\ writable = TRUE
    /\ defaultState = DEFAULT_STATE
    /\ clock = LoadTime
    /\ heartbeatInterval = 0
    /\ timers = <<>>
    /\ tasks = [t \in Slots |-> IdleTask]
    /\ budget = MaxFrameCalls

NextFrame ==
    \/ ClockTick
    \/ \E type \in MonitorTypes, value \in MonitorValues : CallAddMonitor(1, type, value)
    \/ AddMonitorSave(1)
    \/ \E now \in (LoadTime - 2)..MaxClock : CallRemoveMonitor(1, MonitorId(now))
    \/ RemoveMonitorSave(1)
    \/ \E u \in SomeUpdates : CallUpdateUser(1, u)
    \/ UpdateUserSave(1)
    \/ \E i \in SomeInsights : CallAddInsight(1, i)
    \/ AddInsightSave(1, SpecSuffixes)
    \/ \E c \in SomeConversations : CallAddConversation(1, c)
    \/ AddConversationSave(1)
    \/ Return(1)

SpecFrame == InitFrame /\ [][NextFrame]_vars

\* the part of the store each mutator is there to change
PartOf(op) ==
    CASE op = "updateUser" -> "user"
      [] op \in {"addMonitor", "removeMonitor"} -> "monitors"
      [] op = "addInsight" -> "insights"
      [] op = "addConversation" -> "conversations"

\* C28: a mutator that runs alone writes a state that differs from the one
\* stored before the call at most in its own part: the profile for updateUser,
\* the monitor list for addMonitor and removeMonitor, the insight log for
\* addInsight, the conversation log for addConversation; a step that is not a
\* mutator's save writes nothing
C28_MutatorsPreserveTheRest ==
    [][\A t \in Slots :
          IF tasks[t].pc \in SavePcs /\ tasks'[t].pc \notin SavePcs
          THEN /\ fileExists'
               /\ \A part \in DOMAIN DEFAULT_STATE \ {PartOf(tasks[t].op)} :
                     file'[part] = loadMemory[part]
          ELSE (\A u \in Slots : tasks[u].pc \notin SavePcs)
               => file' = file /\ fileExists' = fileExists]_vars

\* C28 witness: over the filled store removeMonitor has removed one of the two
\* monitors and returned true, later than the monitors were created, and the
\* profile and both logs are as they were
C28_Witness ==
    /\ tasks[1].op = "removeMonitor" /\ tasks[1].pc = "done" /\ tasks[1].ret = TRUE
    /\ file.monitors = <<FrameState.monitors[2]>>
    /\ clock = 1
    /\ file.user = FrameState.user
    /\ file.insights = FrameState.insights
    /\ file.conversations = FrameState.conversations

\* C29: the stamping save of a tick writes the monitors it loaded, as many and
\* in the same order, each with its id, type, value and createdAt and with
\* lastCheckedAt set to the time of the step, and writes the profile, the
\* insight log and the conversation log as it loaded them
C29_StampIsTimestampRefreshOnly ==
    [][\A t \in Slots :
          (tasks[t].op = "tick" /\ tasks[t].pc = "hb_save" /\ tasks'[t].pc = "done"
           /\ tasks'[t].ret = NoRet)
          => LET loaded == tasks[t].st
             IN /\ Len(file'.monitors) = Len(loaded.monitors)
                /\ \A i \in 1..Len(loaded.monitors) :
                      /\ DOMAIN file'.monitors[i] = DOMAIN loaded.monitors[i]
                      /\ \A f \in DOMAIN loaded.monitors[i] \ {"lastCheckedAt"} :
                            file'.monitors[i][f] = loaded.monitors[i][f]
                      /\ file'.monitors[i].lastCheckedAt = clock
                /\ file'.user = loaded.user
                /\ file'.insights = loaded.insights
                /\ file'.conversations = loaded.conversations]_vars

\* C29 witness: a tick has stamped two monitors at time 1: the keyword monitor
\* is still first and the channel monitor second, both created at load time
C29_Witness ==
    /\ tasks[1].op = "tick" /\ tasks[1].pc = "done" /\ tasks[1].ret = NoRet
    /\ clock = 1
    /\ Len(file.monitors) = 2
    /\ file.monitors[1].type = "keyword" /\ file.monitors[2].value = "UC123"
    /\ \A i \in 1..2 :
          /\ file.monitors[i].createdAt = LoadTime
          /\ file.monitors[i].id = MonitorId(LoadTime)
          /\ file.monitors[i].lastCheckedAt = 1

\* C30: removeMonitor(id) returns true iff a monitor stored before the call had
\* that id; the list it stores holds no monitor with that id and holds the
\* monitors with another id, unmodified and in their order; with an id that is
\* not stored it returns false and stores the list as it was
C30_RemoveMonitorById ==
    [][\A t \in Slots :
          (tasks[t].pc = "rm_save" /\ tasks'[t].pc = "done")
          => LET id == tasks[t].arg
                 before == loadMemory.monitors
                 after == file'.monitors
                 others == {i \in 1..Len(before) : before[i].id # id}
                 stored == \E i \in 1..Len(before) : before[i].id = id
             IN /\ tasks'[t].ret = stored
                /\ \A j \in 1..Len(after) : after[j].id # id
                /\ Len(after) = Cardinality(others)
                /\ \A j \in 1..Len(after) : after[j] = before[NthOf(others, j)]
                /\ ~stored => tasks'[t].ret = FALSE /\ after = before]_vars

\* C30 witness: of three stored monitors the second was removed by its id: the
\* call returned true and the first and the third are stored, in this order
C30_Witness ==
    /\ tasks[1].op = "removeMonitor" /\ tasks[1].pc = "done" /\ tasks[1].ret = TRUE
    /\ tasks[1].arg = MonitorId(LoadTime - 1)
    /\ Len(file.monitors) = 2
    /\ file.monitors[1] = FrameState.monitors[1]
    /\ file.monitors[2].id \in {MonitorId(LoadTime), MonitorId(1)}

(***************************************************************************)
(* runAllAgents under failing external calls and a failing store           *)
(***************************************************************************)
MaxOrchFailCalls == 2

\* profiles on which at least two agent blocks apply
OrchFailProfiles ==
    {u \in OrchProfiles : Len(ExpectedAgents(u)) >= 2}

InitOrchFail ==
    /\ fileExists = TRUE
    /\ \E u \in OrchFailProfiles : file = [DEFAULT_STATE EXCEPT !.user = u]
    /\ clock = LoadTime
    /\ heartbeatInterval = 0
    /\ timers = <<>>
    /\ writable = TRUE
    /\ defaultState = DEFAULT_STATE
    /\ tasks = [t \in Slots |-> IdleTask]
    /\ budget = MaxOrchFailCalls

NextOrchFail ==
    \/ CallRunAllAgents(1)
    \/ RunAgentRun(1)
    \/ AddInsightLoad(1)
    \/ AddInsightSave(1, SpecSuffixes)
    \/ FileDamaged
    \/ PathLocked
    \/ Return(1)

SpecOrchFail == InitOrchFail /\ [][NextOrchFail]_vars

\* the errors of the store: the file does not parse, the path is not writable
PersistenceErrors == {"SyntaxError", "EACCES"}

\* the step of the call is a read of an unparseable file or a write to an
\* unwritable path
PersistenceFails(task) ==
    \/ task.pc \in {"idle", "ai_load"} /\ LoadThrows
    \/ task.pc = "ai_save" /\ ~writable

\* C31: whatever external calls fail inside an agent, the agent's run returns and
\* runAllAgents goes on: a run never rejects the call, a finished runAllAgents
\* has invoked every eligible agent and returns one result per eligible agent;
\* runAllAgents is rejected exactly at a step where the store fails, and with
\* the store's error
C31_OnlyPersistenceFailsRunAll ==
    /\ [](\A t \in Slots :
            (tasks[t].op = "runAllAgents" /\ tasks[t].pc = "done"
             /\ ~EmptyProfile(tasks[t].user))
            => /\ tasks[t].ran = ExpectedAgents(tasks[t].user)
               /\ Len(tasks[t].ret) = Len(tasks[t].ran)
               /\ \A i \in 1..Len(tasks[t].ret) :
                     /\ tasks[t].ret[i].agentId = tasks[t].ran[i]
                     /\ tasks[t].ret[i].success)
    /\ [][\A t \in Slots :
            (tasks'[t].op = "runAllAgents" /\ tasks'[t] # tasks[t])
            => /\ tasks[t].pc = "ra_run"
                  => /\ tasks'[t].pc # "threw"
                     /\ tasks'[t].ran = Append(tasks[t].ran, tasks[t].agent)
               /\ tasks'[t].pc = "threw"
                  <=> PersistenceFails(tasks[t])
               /\ tasks'[t].pc = "threw"
                  => tasks'[t].ret \in PersistenceErrors]_vars

\* C31 witness: runAllAgents has returned three results on a profile with a
\* keyword; Trend Spotter, which reports on every keyword whose search
\* succeeds, came back without an insight, so every external call it made
\* failed, and Lead Qualifier ran after it and found buying signals
C31_Witness ==
    /\ tasks[1].op = "runAllAgents" /\ tasks[1].pc = "done"
    /\ tasks[1].user.keywords # <<>>
    /\ Len(tasks[1].ret) = 3
    /\ tasks[1].ret[2].agentId = "trend-spotter"
    /\ tasks[1].ret[2].insights = <<>>
    /\ tasks[1].ret[3].agentId = "lead-qualifier"
    /\ tasks[1].ret[3].insights # <<>>

(***************************************************************************)
(* runAllAgents while the profile is being changed                         *)
(***************************************************************************)
MaxParamCalls == 2

\* stored profiles with up to two competitors
ParamProfiles ==
    {[DEFAULT_STATE.user EXCEPT !.competitors = c, !.keywords = k, !.trackedChannels = ch] :
        c \in {<<>>, <<"Acme", "Bolt">>}, k \in {<<>>, <<"CRM">>}, ch \in {<<>>, <<"UC123">>}}

\* updateUser calls made while the agents run
ParamUpdates ==
    {[keywords |-> <<"ERP">>], [competitors |-> <<"Cato">>, trackedChannels |-> <<>>]}

InitParams ==
    /\ fileExists = TRUE
    /\ \E u \in ParamProfiles : file = [DEFAULT_STATE EXCEPT !.user = u]
    /\ clock = LoadTime
    /\ heartbeatInterval = 0
    /\ timers = <<>>
    /\ writable = TRUE
    /\ defaultState = DEFAULT_STATE
    /\ tasks = [t \in Slots |-> IdleTask]
    /\ budget = MaxParamCalls

NextParams ==
    \/ CallRunAllAgents(1)
    \/ RunAgentRun(1)
    \/ AddInsightLoad(1)
    \/ AddInsightSave(1, SpecSuffixes)
    \/ \E u \in ParamUpdates : CallUpdateUser(2, u)
    \/ UpdateUserSave(2)
    \/ \E t \in Slots : Return(t)

SpecParams == InitParams /\ [][NextParams]_vars

\* runAllAgents is inside a runAgent call
InRunAgent(task) ==
    task.op = "runAllAgents" /\ task.pc \in {"ra_run", "ai_load", "ai_save"}

\* C32: runAllAgents gives Competitor Monitor the tracked channels as channelIds
\* and each competitor name followed by " review" as keywords, Trend Spotter
\* the stored keywords, Lead Qualifier the keywords followed by the competitor
\* names and no video ids; the profile is the one runAllAgents loaded when it
\* was called, whatever is stored since
C32_ParamsFromProfileAtStart ==
    /\ [](\A t \in Slots :
            InRunAgent(tasks[t])
            => LET u == tasks[t].user
                   p == tasks[t].params
               IN CASE tasks[t].agent = "competitor-monitor" ->
                         /\ DOMAIN p = {"channelIds", "keywords"}
                         /\ p.channelIds = u.trackedChannels
                         /\ Len(p.keywords) = Len(u.competitors)
                         /\ \A i \in 1..Len(u.competitors) :
                               p.keywords[i] = u.competitors[i] \o " review"
                    [] tasks[t].agent = "trend-spotter" ->
                         /\ DOMAIN p = {"keywords"}
                         /\ p.keywords = u.keywords
                    [] tasks[t].agent = "lead-qualifier" ->
                         /\ DOMAIN p = {"keywords"}
                         /\ Len(p.keywords) = Len(u.keywords) + Len(u.competitors)
                         /\ SubSeq(p.keywords, 1, Len(u.keywords)) = u.keywords
                         /\ SubSeq(p.keywords, Len(u.keywords) + 1, Len(p.keywords))
                               = u.competitors
                    [] OTHER -> FALSE)
    /\ [][\A t \in Slots :
            /\ (tasks[t].op = "idle" /\ InRunAgent(tasks'[t]))
               => tasks'[t].user = file.user
            /\ (InRunAgent(tasks[t]) /\ InRunAgent(tasks'[t]))
               => tasks'[t].user = tasks[t].user]_vars

\* C32 witness: runAllAgents is about to run Lead Qualifier on the keyword and
\* the two competitors it loaded, after Competitor Monitor has run on the two
\* competitor names with " review", while the store holds other keywords
C32_Witness ==
    /\ InRunAgent(tasks[1]) /\ tasks[1].pc = "ra_run"
    /\ tasks[1].agent = "lead-qualifier"
    /\ tasks[1].params = [keywords |-> <<"CRM", "Acme", "Bolt">>]
    /\ tasks[1].ran = <<"competitor-monitor", "trend-spotter">>
    /\ tasks[1].results[1].insights
          = <<Insight("competitor_move", "videos found", "Acme review"),
              Insight("competitor_move", "videos found", "Bolt review")>>
    /\ ~LoadThrows /\ file.user.keywords = <<"ERP">>

(***************************************************************************)
(* addInsight with the random suffix drawn freely                          *)
(***************************************************************************)
MaxIdCalls == 3

InitIds ==
    /\ fileExists = FALSE /\ file = DEFAULT_STATE
    /\ clock = LoadTime
    /\ heartbeatInterval = 0
    /\ timers = <<>>
    /\ writable = TRUE
    /\ defaultState = DEFAULT_STATE
    /\ tasks = [t \in Slots |-> IdleTask]
    /\ budget = MaxIdCalls

NextIds ==
    \/ ClockTick
    \/ \E i \in SomeInsights : CallAddInsight(1, i)
    \/ AddInsightSave(1, RandomSuffixes)
    \/ Return(1)

SpecIds == InitIds /\ [][NextIds]_vars

\* C33: any two distinct stored insights have different ids, also when both
\* were appended at one value of the clock
C33_InsightIdsUnique ==
    \A i, j \in 1..Len(file.insights) :
        i # j => file.insights[i].id # file.insights[j].id

(***************************************************************************)
(* Claims on the timer, checked under Spec                                 *)
(***************************************************************************)
\* the tick callbacks that have started and not yet settled
TicksInFlight ==
    {t \in Slots : tasks[t].op = "tick" /\ tasks[t].pc \notin {"idle", "done", "threw"}}

\* C34: at most one tick is in flight: the timer does not begin a tick while
\* the runAllAgents, the conversation append or the stamping save of an
\* earlier tick is pending
C34_TicksNeverOverlap == Cardinality(TicksInFlight) <= 1

(***************************************************************************)
(* The read-only operations: getInsights, get_memory, listAgents and the   *)
(* heartbeat status                                                        *)
(***************************************************************************)
\* Object.values(agents).map(a => ({ id, name, ... })): the four agents in the
\* order of the keys of `agents`
listAgents ==
    <<[id |-> "competitor-monitor", name |-> "Competitor Monitor"],
      [id |-> "sentiment-analyst", name |-> "Sentiment Analyst"],
      [id |-> "trend-spotter", name |-> "Trend Spotter"],
      [id |-> "lead-qualifier", name |-> "Lead Qualifier"]>>

\* a call of listAgents: it has no await and touches nothing
CallListAgents(t) ==
    Start(t, Done(NewTask("listAgents", "done", NoArg), listAgents))

\* `[${ins.type}] ${ins.title} (${ins.createdAt.split("T")[0]})`
InsightLine(ins) == [type |-> ins.type, title |-> ins.title, createdAt |-> ins.createdAt]

\* the text get_memory builds from the loaded state
MemoryText(state, handle) ==
    [industry |-> state.user.industry,
     competitors |-> state.user.competitors,
     keywords |-> state.user.keywords,
     trackedChannels |-> state.user.trackedChannels,
     monitors |-> state.monitors,
     stored |-> Len(state.insights),
     insights |-> Map(SliceLast(state.insights, 5), InsightLine),
     agents |-> listAgents,
     heartbeat |-> isHeartbeatRunning(handle),
     conversations |-> Len(state.conversations)]

\* a slip in get_memory: a store that is not yet on disk is created
CallGetMemoryInitialises(t) ==
    /\ CanStart(t)
    /\ budget' = budget - 1
    /\ fileExists' = TRUE
    /\ file' = IF fileExists THEN file ELSE DEFAULT_STATE
    /\ tasks' = [tasks EXCEPT ![t] =
          IF LoadThrows THEN Done(NewTask("get_memory", "done", NoArg), ToolError("SyntaxError"))
          ELSE Done(NewTask("get_memory", "done", NoArg),
                    MemoryText(loadMemory, heartbeatInterval))]
    /\ UNCHANGED <<clock, heartbeatInterval, timers, writable, defaultState>>

\* the get_memory handler: const state = await loadMemory(), then the text;
\* its catch replies with the error text
CallGetMemory(t) ==
    Start(t, IF LoadThrows
             THEN Done(NewTask("get_memory", "done", NoArg), ToolError("SyntaxError"))
             ELSE Done(NewTask("get_memory", "done", NoArg),
                       MemoryText(loadMemory, heartbeatInterval)))

MaxReadCalls == 3

ReadFilters ==
    {[agentId |-> Undefined, type |-> Undefined, limit |-> 0],
     [agentId |-> "trend-spotter", type |-> "trend", limit |-> 1]}

InitRead ==
    /\ \/ fileExists = FALSE /\ file = DEFAULT_STATE
       \/ fileExists = TRUE /\ file \in {FrameState, Corrupt}
    /\ writable = TRUE
    /\ defaultState = DEFAULT_STATE
    /\ clock = LoadTime
    /\ heartbeatInterval = 0
    /\ timers = <<>>
    /\ tasks = [t \in Slots |-> IdleTask]
    /\ budget = MaxReadCalls

NextRead ==
    \/ \E t \in Slots, f \in ReadFilters : CallGetInsights(t, f)
    \/ \E t \in Slots : CallGetMemory(t)
    \/ \E t \in Slots : CallListAgents(t)
    \/ \E t \in Slots, a \in HeartbeatActions : CallHeartbeat(t, a, DefaultInterval)
    \/ \E i \in SomeInsights : CallAddInsight(1, i)
    \/ AddInsightSave(1, SpecSuffixes)
    \/ \E t \in Slots : Return(t)

SpecRead == InitRead /\ [][NextRead]_vars

\* the call is one of the read-only operations
ReadOnlyCall(task) ==
    \/ task.op \in {"getInsights", "get_memory", "listAgents"}
    \/ task.op = "heartbeat" /\ task.arg.action = "status"

\* C35: getInsights, get_memory, listAgents and the heartbeat status write
\* nothing: each is over within the step it is called in, and the state file
\* (and the in-memory default state) after it is as it was before
C35_ReadOnlyOperationsWriteNothing ==
    [][\A t \in Slots :
          (tasks[t].pc = "idle" /\ ReadOnlyCall(tasks'[t]))
          => /\ tasks'[t].pc \in {"done", "threw"}
             /\ fileExists' = fileExists
             /\ file' = file
             /\ defaultState' = defaultState]_vars

\* C35 witness: get_memory has replied with the text of an empty memory, next
\* to a finished listAgents, and there is still no state file
C35_Witness ==
    /\ ~fileExists
    /\ tasks[1].op = "listAgents" /\ tasks[1].pc = "done" /\ Len(tasks[1].ret) = 4
    /\ tasks[2].op = "get_memory" /\ tasks[2].pc = "done"
    /\ tasks[2].ret.stored = 0 /\ tasks[2].ret.monitors = <<>>

(***************************************************************************)
(* sentiment-analyst.ts: run, with the comments of each video              *)
(* fetched[i] is what getVideoComments(videoIds[i], 50) does: ok is FALSE  *)
(* when it throws, else comments is result.comments                        *)
(***************************************************************************)
\* `- "${c.text.slice(0, 120)}" (${c.likeCount} likes)`
QuoteWithLikes(c) == [text |-> SliceFirst(c.text, 120), likes |-> c.likeCount]

\* `- "${c.text.slice(0, 120)}"`
Quote(c) == [text |-> SliceFirst(c.text, 120)]

\* a slip in the last block: five positive examples are quoted
SentimentOfCommentsFivePositives(videoId, comments) ==
    LET classified == [i \in 1..Len(comments) |->
                          [text |-> comments[i].text, likeCount |-> comments[i].likeCount,
                           sentiment |-> classifyComment(comments[i].text)]]
        IsNegative(c) == c.sentiment = "negative"
        IsRequest(c) == c.sentiment = "request"
        IsPositive(c) == c.sentiment = "positive"
        negatives == Filter(classified, IsNegative)
        requests == Filter(classified, IsRequest)
        positives == Filter(classified, IsPositive)
    IN (IF Len(negatives) > 0
        THEN <<[type |-> "sentiment",
                title |-> <<Len(negatives), "negative comments on video">>,
                detail |-> Map(SliceFirst(negatives, 5), QuoteWithLikes),
                source |-> videoId]>>
        ELSE <<>>)
       \o (IF Len(requests) > 0
           THEN <<[type |-> "buying_signal",
                   title |-> <<Len(requests), "feature requests / wishes">>,
                   detail |-> Map(SliceFirst(requests, 5), QuoteWithLikes),
                   source |-> videoId]>>
           ELSE <<>>)
       \o (IF Len(positives) > 0
           THEN <<[type |-> "sentiment",
                   title |-> <<Len(positives), "positive comments">>,
                   detail |-> Map(SliceFirst(positives, 5), Quote),
                   source |-> videoId]>>
           ELSE <<>>)

\* the body of the try block for one video whose comments were fetched
SentimentOfComments(videoId, comments) ==
    LET classified == [i \in 1..Len(comments) |->
                          [text |-> comments[i].text, likeCount |-> comments[i].likeCount,
                           sentiment |-> classifyComment(comments[i].text)]]
        IsNegative(c) == c.sentiment = "negative"
        IsRequest(c) == c.sentiment = "request"
        IsPositive(c) == c.sentiment = "positive"
        negatives == Filter(classified, IsNegative)
        requests == Filter(classified, IsRequest)
        positives == Filter(classified, IsPositive)
    IN (IF Len(negatives) > 0
        THEN <<[type |-> "sentiment",
                title |-> <<Len(negatives), "negative comments on video">>,
                detail |-> Map(SliceFirst(negatives, 5), QuoteWithLikes),
                source |-> videoId]>>
        ELSE <<>>)
       \o (IF Len(requests) > 0
           THEN <<[type |-> "buying_signal",
                   title |-> <<Len(requests), "feature requests / wishes">>,
                   detail |-> Map(SliceFirst(requests, 5), QuoteWithLikes),
                   source |-> videoId]>>
           ELSE <<>>)
       \o (IF Len(positives) > 0
           THEN <<[type |-> "sentiment",
                   title |-> <<Len(positives), "positive comments">>,
                   detail |-> Map(SliceFirst(positives, 3), Quote),
                   source |-> videoId]>>
           ELSE <<>>)

\* for (const videoId of params.videoIds) try { ... } catch { }
RECURSIVE SentimentLoop(_, _, _)
SentimentLoop(videoIds, fetched, i) ==
    IF i > Len(videoIds) THEN <<>>
    ELSE (IF fetched[i].ok THEN SentimentOfComments(videoIds[i], fetched[i].comments)
          ELSE <<>>)
         \o SentimentLoop(videoIds, fetched, i + 1)

\* run(params) of the Sentiment Analyst
SentimentAnalystRunOn(params, fetched) ==
    LET insights == SentimentLoop(params.videoIds, fetched, 1)
    IN [agentId |-> "sentiment-analyst", success |-> TRUE,
        summary |-> <<Len(params.videoIds), Len(insights)>>,
        insights |-> insights]

CallSentimentAnalyst(t, params, fetched) ==
    Start(t, Done(NewTask("sentiment-analyst", "done",
                          [params |-> params, fetched |-> fetched]),
                  SentimentAnalystRunOn(params, fetched)))

MaxComments == 6
MaxSentimentCalls == 1

SentimentTexts ==
    {<<"B", "a", "d">>, <<"w", "i", "s", "h">>, <<"b", "e", "s", "t">>, <<"o", "k">>}

\* result.comments: the i-th comment has i likes
CommentLists ==
    UNION {{[i \in 1..n |-> [text |-> texts[i], likeCount |-> i]] :
               texts \in [1..n -> SentimentTexts]} : n \in 0..MaxComments}

Inaccessible == [ok |-> FALSE, comments |-> <<>>]

\* the outcomes of the two fetches of a run on two videos
FetchedPairs ==
    {<<first, second>> :
        first \in {Inaccessible,
                   [ok |-> TRUE, comments |-> <<[text |-> <<"B", "a", "d">>, likeCount |-> 9]>>]},
        second \in {Inaccessible} \cup {[ok |-> TRUE, comments |-> l] : l \in CommentLists}}

InitSentiment ==
    /\ fileExists = FALSE
    /\ file = DEFAULT_STATE
    /\ writable = TRUE
    /\ defaultState = DEFAULT_STATE
    /\ clock = LoadTime
    /\ heartbeatInterval = 0
    /\ timers = <<>>
    /\ tasks = [t \in Slots |-> IdleTask]
    /\ budget = MaxSentimentCalls

NextSentiment ==
    \/ /\ CanStart(1)
       /\ \E f \in FetchedPairs : CallSentimentAnalyst(1, [videoIds |-> <<"v1", "v2">>], f)
    \/ Return(1)

SpecSentiment == InitSentiment /\ [][NextSentiment]_vars

\* the positions of the comments classifyComment puts in class
OfClass(comments, class) ==
    {k \in 1..Len(comments) : classifyComment(comments[k].text) = class}

SentimentKinds ==
    <<[class |-> "negative", type |-> "sentiment", cap |-> 5],
      [class |-> "request", type |-> "buying_signal", cap |-> 5],
      [class |-> "positive", type |-> "sentiment", cap |-> 3]>>

\* what the title of an insight says it reports
ClassReported(insight) ==
    CASE insight.title[2] = "negative comments on video" -> "negative"
      [] insight.title[2] = "feature requests / wishes" -> "request"
      [] insight.title[2] = "positive comments" -> "positive"

\* C36: the Sentiment Analyst's run always returns; a video whose comments are
\* inaccessible adds nothing; a video with comments adds at most three
\* insights, negatives then requests then positives, one for a class iff a
\* comment falls in it, negatives and positives typed sentiment and requests
\* typed buying_signal, quoting the first comments of the class, at most
\* 5, 5 and 3 of them
C36_SentimentPerVideo ==
    \A t \in Slots :
       tasks[t].op = "sentiment-analyst"
       => /\ tasks[t].pc = "done"
          /\ tasks[t].ret.success
          /\ LET videoIds == tasks[t].arg.params.videoIds
                 fetched == tasks[t].arg.fetched
                 insights == tasks[t].ret.insights
                 Mine(i) == LET About(x) == x.source = videoIds[i]
                            IN Filter(insights, About)
                 Kinds(i) == LET Present(k) == OfClass(fetched[i].comments, k.class) # {}
                             IN Filter(SentimentKinds, Present)
             IN /\ insights = Mine(1) \o Mine(2)
                /\ \A i \in 1..Len(videoIds) :
                      IF ~fetched[i].ok THEN Mine(i) = <<>>
                      ELSE /\ Len(Mine(i)) <= 3
                           /\ Len(Mine(i)) = Len(Kinds(i))
                           /\ \A j \in 1..Len(Mine(i)) :
                                 LET kind == Kinds(i)[j]
                                     at == OfClass(fetched[i].comments, kind.class)
                                     detail == Mine(i)[j].detail
                                 IN /\ ClassReported(Mine(i)[j]) = kind.class
                                    /\ Mine(i)[j].type = kind.type
                                    /\ Mine(i)[j].title[1] = Cardinality(at)
                                    /\ Len(detail) = Min(Cardinality(at), kind.cap)
                                    /\ \A q \in 1..Len(detail) :
                                          detail[q].text
                                             = fetched[i].comments[NthOf(at, q)].text

\* C36 witness: the first video's comments were inaccessible; the second had
\* four positive comments, a negative one and a request, and the run returned
\* three insights, the second typed buying_signal, the third with three quotes
C36_Witness ==
    /\ tasks[1].op = "sentiment-analyst" /\ tasks[1].pc = "done"
    /\ ~tasks[1].arg.fetched[1].ok
    /\ LET comments == tasks[1].arg.fetched[2].comments
           insights == tasks[1].ret.insights
       IN /\ Cardinality(OfClass(comments, "positive")) = 4
          /\ Cardinality(OfClass(comments, "negative")) = 1
          /\ Cardinality(OfClass(comments, "request")) = 1
          /\ Len(insights) = 3
          /\ Len(insights[3].detail) = 3
          /\ insights[2].type = "buying_signal"

(***************************************************************************)
(* lead-qualifier (trend-spotter.ts): hasBuyingSignal                      *)
(***************************************************************************)
BUYING_SIGNALS ==
    <<<<"l", "o", "o", "k", "i", "n", "g", " ", "f", "o", "r">>,
      <<"r", "e", "c", "o", "m", "m", "e", "n", "d">>,
      <<"a", "l", "t", "e", "r", "n", "a", "t", "i", "v", "e", " ", "t", "o">>,
      <<"s", "w", "i", "t", "c", "h", " ", "f", "r", "o", "m">>,
      <<"m", "i", "g", "r", "a", "t", "e">>,
      <<"c", "o", "m", "p", "a", "r", "e", "d", " ", "t", "o">>,
      <<"p", "r", "i", "c", "i", "n", "g">>,
      <<"w", "o", "r", "t", "h", " ", "i", "t">>,
      <<"s", "h", "o", "u", "l", "d", " ", "I", " ", "b", "u", "y">>,
      <<"v", "s">>,
      <<"b", "e", "t", "t", "e", "r", " ", "t", "h", "a", "n">>,
      <<"r", "e", "p", "l", "a", "c", "e", "m", "e", "n", "t">>,
      <<"w", "h", "i", "c", "h", " ", "i", "s", " ", "b", "e", "s", "t">>,
      <<"a", "n", "y", " ", "s", "u", "g", "g", "e", "s", "t", "i", "o", "n", "s">>,
      <<"t", "r", "i", "a", "l">>,
      <<"d", "e", "m", "o">>,
      <<"e", "n", "t", "e", "r", "p", "r", "i", "s", "e">>,
      <<"s", "t", "a", "r", "t", "u", "p">>,
      <<"t", "e", "a", "m", " ", "o", "f">>,
      <<"b", "u", "d", "g", "e", "t">>>>

\* the null that hasBuyingSignal returns; no phrase is the empty string
Null == <<>>

\* BUYING_SIGNALS.find(s => lower.includes(s)) || null
hasBuyingSignal(text) ==
    LET lower == toLowerCase(text)
        found == {k \in 1..Len(BUYING_SIGNALS) : includes(lower, BUYING_SIGNALS[k])}
    IN IF found = {} THEN Null
       ELSE BUYING_SIGNALS[CHOOSE k \in found : \A j \in found : k <= j]

CallHasBuyingSignal(t, text) ==
    Start(t, Done(NewTask("hasBuyingSignal", "done", text), hasBuyingSignal(text)))

MaxSignalFragments == 3
MaxSignalCalls == 1

SignalFragments ==
    {<<"S", "h", "o", "u", "l", "d", " ", "I", " ", "b", "u", "y">>,
     <<"s", "h", "o", "u", "l", "d", " ", "i", " ", "b", "u", "y">>,
     <<" ", "V", "S", " ">>,
     <<"o", "k", " ">>,
     <<"P", "r", "i", "c", "i", "n", "g">>,
     <<"o", "n", " ", "a", " ", "b", "u", "d", "g", "e", "t">>,
     <<"t", "r">>,
     <<"i", "a", "l">>}

RECURSIVE SignalTextsOf(_)
SignalTextsOf(n) ==
    IF n = 0 THEN {<<>>}
    ELSE LET shorter == SignalTextsOf(n - 1)
         IN shorter \cup {a \o f : a \in shorter, f \in SignalFragments}

SignalTexts == SignalTextsOf(MaxSignalFragments)

InitSignal ==
    /\ fileExists = FALSE
    /\ file = DEFAULT_STATE
    /\ writable = TRUE
    /\ defaultState = DEFAULT_STATE
    /\ clock = LoadTime
    /\ heartbeatInterval = 0
    /\ timers = <<>>
    /\ tasks = [t \in Slots |-> IdleTask]
    /\ budget = MaxSignalCalls

NextSignal ==
    \/ \E text \in SignalTexts : CallHasBuyingSignal(1, text)
    \/ Return(1)

SpecSignal == InitSignal /\ [][NextSignal]_vars

\* text contains the phrase s at some position, letter case aside on both sides
ContainsPhrase(text, s) ==
    \E i \in 1..(Len(text) - Len(s) + 1) :
        \A k \in 1..Len(s) : LowerChar(text[i + k - 1]) = LowerChar(s[k])

\* the positions in BUYING_SIGNALS of the phrases text contains
PhrasesIn(text) ==
    {k \in 1..Len(BUYING_SIGNALS) : ContainsPhrase(text, BUYING_SIGNALS[k])}

\* C38: hasBuyingSignal returns the first phrase of BUYING_SIGNALS, in list
\* order, that the text contains in any letter casing, and null iff the text
\* contains none of the phrases
C38_FirstPhraseIgnoringCase ==
    \A t \in Slots :
        tasks[t].op = "hasBuyingSignal"
        => LET contained == PhrasesIn(tasks[t].arg)
           IN tasks[t].ret =
                 IF contained = {} THEN Null
                 ELSE BUYING_SIGNALS[NthOf(contained, 1)]

(***************************************************************************)
(* lead-qualifier (trend-spotter.ts): run, with the calls it makes         *)
(* search is what searchVideos does for a keyword and fetch what           *)
(* getVideoComments does for a video: ok is FALSE when the call throws     *)
(***************************************************************************)
\* `${keyword} review OR comparison OR alternative OR best`
intentQuery(keyword) == keyword \o " review OR comparison OR alternative OR best"

SearchCall(query, maxResults) ==
    [fn |-> "searchVideos", query |-> query, max |-> maxResults]

CommentsCall(videoId, maxResults) ==
    [fn |-> "getVideoComments", videoId |-> videoId, max |-> maxResults]

\* comments.comments.map(c => ({ ...c, signal: hasBuyingSignal(c.text) }))
\*                  .filter(c => c.signal !== null)
signalComments(comments) ==
    LET Flagged(c) == hasBuyingSignal(c.text) # Null
    IN Filter(comments, Flagged)

\* `- [${c.signal}] "${c.text.slice(0, 100)}" ...`
SignalLine(c) == [signal |-> hasBuyingSignal(c.text), text |-> SliceFirst(c.text, 100)]

\* a slip in the keyword block: the comments of every returned video are fetched
LeadOfKeywordAllVideos(keyword, search, fetch) ==
    LET searched == <<SearchCall(intentQuery(keyword), 5)>>
    IN IF ~search.ok \/ Len(search.videos) = 0
       THEN [insights |-> <<>>, calls |-> searched]
       ELSE LET topVideo == search.videos[1]
                Fetched(v) == CommentsCall(v.videoId, 30)
                fetched == searched \o Map(search.videos, Fetched)
                flagged == IF fetch.ok THEN signalComments(fetch.comments) ELSE <<>>
            IN [insights |->
                   IF Len(flagged) > 0
                   THEN <<[type |-> "buying_signal",
                           title |-> <<Len(flagged), "buying signals in", topVideo.title>>,
                           detail |-> Map(SliceFirst(flagged, 5), SignalLine),
                           source |-> [videoId |-> topVideo.videoId, query |-> keyword]]>>
                   ELSE <<>>,
                calls |-> fetched]

\* the body of the keyword loop: the search, then the comments of the top
\* video only, then at most one insight
LeadOfKeyword(keyword, search, fetch) ==
    LET searched == <<SearchCall(intentQuery(keyword), 5)>>
    IN IF ~search.ok \/ Len(search.videos) = 0
       THEN [insights |-> <<>>, calls |-> searched]
       ELSE LET topVideo == search.videos[1]
                fetched == Append(searched, CommentsCall(topVideo.videoId, 30))
                flagged == IF fetch.ok THEN signalComments(fetch.comments) ELSE <<>>
            IN [insights |->
                   IF Len(flagged) > 0
                   THEN <<[type |-> "buying_signal",
                           title |-> <<Len(flagged), "buying signals in", topVideo.title>>,
                           detail |-> Map(SliceFirst(flagged, 5), SignalLine),
                           source |-> [videoId |-> topVideo.videoId, query |-> keyword]]>>
                   ELSE <<>>,
                calls |-> fetched]

\* the body of the video id loop
LeadOfVideo(videoId, fetch) ==
    LET flagged == IF fetch.ok THEN signalComments(fetch.comments) ELSE <<>>
    IN [insights |->
           IF Len(flagged) > 0
           THEN <<[type |-> "buying_signal",
                   title |-> <<Len(flagged), "buying signals in video comments">>,
                   detail |-> Map(SliceFirst(flagged, 5), SignalLine),
                   source |-> [videoId |-> videoId]]>>
           ELSE <<>>,
        calls |-> <<CommentsCall(videoId, 50)>>]

RECURSIVE LeadKeywordLoop(_, _, _)
LeadKeywordLoop(keywords, world, i) ==
    IF i > Len(keywords) THEN [insights |-> <<>>, calls |-> <<>>]
    ELSE LET one == LeadOfKeyword(keywords[i], world.srch[i], world.cmts[i])
             rest == LeadKeywordLoop(keywords, world, i + 1)
         IN [insights |-> one.insights \o rest.insights, calls |-> one.calls \o rest.calls]

RECURSIVE LeadVideoLoop(_, _, _)
LeadVideoLoop(videoIds, world, i) ==
    IF i > Len(videoIds) THEN [insights |-> <<>>, calls |-> <<>>]
    ELSE LET one == LeadOfVideo(videoIds[i], world.vid[i])
             rest == LeadVideoLoop(videoIds, world, i + 1)
         IN [insights |-> one.insights \o rest.insights, calls |-> one.calls \o rest.calls]

\* run(params) of the Lead Qualifier: its result and the calls it has made
LeadQualifierRunOn(params, world) ==
    LET k == LeadKeywordLoop(params.keywords, world, 1)
        v == LeadVideoLoop(ListOr(params, "videoIds"), world, 1)
        insights == k.insights \o v.insights
    IN [result |-> [agentId |-> "lead-qualifier", success |-> TRUE,
                    summary |-> <<Len(params.keywords), Len(ListOr(params, "videoIds")),
                                  Len(insights)>>,
                    insights |-> insights],
        calls |-> k.calls \o v.calls]

CallLeadQualifier(t, params, world) ==
    Start(t, Done(NewTask("lead-qualifier", "done", [params |-> params, world |-> world]),
                  LeadQualifierRunOn(params, world)))

MaxLeadCalls == 1
MaxLeadKeywords == 2

LeadKeywords == <<"CRM", "ERP", "HR", "BI">>

\* params: the first n keywords, with video ids absent, empty or one id
LeadParams ==
    {[keywords |-> SubSeq(LeadKeywords, 1, n)] : n \in 0..MaxLeadKeywords}
    \cup {[keywords |-> SubSeq(LeadKeywords, 1, n), videoIds |-> v] :
             n \in 0..MaxLeadKeywords, v \in {<<>>, <<"v9">>}}

Failed == [ok |-> FALSE]

LeadSearches ==
    {Failed,
     [ok |-> TRUE, videos |-> <<>>],
     [ok |-> TRUE, videos |-> <<[videoId |-> "a", title |-> "A"]>>],
     [ok |-> TRUE, videos |-> <<[videoId |-> "a", title |-> "A"],
                                [videoId |-> "b", title |-> "B"]>>]}

PlainComment == [text |-> <<"o", "k">>]
SignalComment == [text |-> <<"P", "r", "i", "c", "i", "n", "g", "?">>]

LeadFetches ==
    {Failed} \cup
    {[ok |-> TRUE, comments |-> c] :
        c \in {<<>>, <<PlainComment>>, <<SignalComment>>, <<PlainComment, SignalComment>>,
               <<SignalComment, SignalComment>>}}

LeadWorlds(params) ==
    [srch : [1..Len(params.keywords) -> LeadSearches],
     cmts : [1..Len(params.keywords) -> LeadFetches],
     vid : [1..Len(ListOr(params, "videoIds")) -> LeadFetches]]

InitLead ==
    /\ fileExists = FALSE
    /\ file = DEFAULT_STATE
    /\ writable = TRUE
    /\ defaultState = DEFAULT_STATE
    /\ clock = LoadTime
    /\ heartbeatInterval = 0
    /\ timers = <<>>
    /\ tasks = [t \in Slots |-> IdleTask]
    /\ budget = MaxLeadCalls

NextLead ==
    \/ /\ CanStart(1)
       /\ \E params \in LeadParams : \E world \in LeadWorlds(params) :
             CallLeadQualifier(1, params, world)
    \/ Return(1)

SpecLead == InitLead /\ [][NextLead]_vars

\* a comment of the fetch is flagged
SomeFlagged(fetch) ==
    fetch.ok /\ \E k \in 1..Len(fetch.comments) : hasBuyingSignal(fetch.comments[k].text) # Null

\* the positions of the keywords whose search returned a video
WithVideos(world) ==
    {i \in DOMAIN world.srch : world.srch[i].ok /\ Len(world.srch[i].videos) > 0}

\* C37: the Lead Qualifier searches once per keyword, with the query
\* "<keyword> review OR comparison OR alternative OR best" for 5 videos, and
\* fetches comments (30) of the first returned video only; it fetches 50
\* comments of each supplied video id; it emits one buying_signal insight for a
\* keyword iff a comment of its top video is flagged, and one for a video id
\* iff a comment of it is flagged, so never more insights than keywords plus
\* video ids
C37_LeadQualifierCalls ==
    \A t \in Slots :
       tasks[t].op = "lead-qualifier"
       => LET keywords == tasks[t].arg.params.keywords
              videoIds == ListOr(tasks[t].arg.params, "videoIds")
              world == tasks[t].arg.world
              calls == tasks[t].ret.calls
              insights == tasks[t].ret.result.insights
              IsSearch(c) == c.fn = "searchVideos"
              IsTopFetch(c) == c.fn = "getVideoComments" /\ c.max = 30
              IsIdFetch(c) == c.fn = "getVideoComments" /\ c.max = 50
              OfKeyword(x) == "query" \in DOMAIN x.source
              OfVideoId(x) == "query" \notin DOMAIN x.source
              searches == Filter(calls, IsSearch)
              topFetches == Filter(calls, IsTopFetch)
              idFetches == Filter(calls, IsIdFetch)
              hits == {i \in WithVideos(world) : SomeFlagged(world.cmts[i])}
              idHits == {j \in 1..Len(videoIds) : SomeFlagged(world.vid[j])}
          IN /\ Len(calls) = Len(searches) + Len(topFetches) + Len(idFetches)
             /\ Len(searches) = Len(keywords)
             /\ \A i \in 1..Len(keywords) :
                   /\ searches[i].query
                         = keywords[i] \o " review OR comparison OR alternative OR best"
                   /\ searches[i].max = 5
             /\ Len(topFetches) = Cardinality(WithVideos(world))
             /\ \A n \in 1..Len(topFetches) :
                   topFetches[n].videoId
                      = world.srch[NthOf(WithVideos(world), n)].videos[1].videoId
             /\ Len(idFetches) = Len(videoIds)
             /\ \A j \in 1..Len(videoIds) : idFetches[j].videoId = videoIds[j]
             /\ \A n \in 1..Len(insights) : insights[n].type = "buying_signal"
             /\ Len(Filter(insights, OfKeyword)) = Cardinality(hits)
             /\ \A n \in 1..Cardinality(hits) :
                   Filter(insights, OfKeyword)[n].source.query = keywords[NthOf(hits, n)]
             /\ Len(Filter(insights, OfVideoId)) = Cardinality(idHits)
             /\ \A n \in 1..Cardinality(idHits) :
                   Filter(insights, OfVideoId)[n].source.videoId = videoIds[NthOf(idHits, n)]
             /\ Len(insights) <= Len(keywords) + Len(videoIds)

\* C37 witness: on two keywords and a video id, the first search returned two
\* videos and only the first one's comments were fetched, the second search
\* failed, and the run emitted one insight for the first keyword and one for
\* the video id
C37_Witness ==
    /\ tasks[1].op = "lead-qualifier" /\ tasks[1].pc = "done"
    /\ tasks[1].arg.params = [keywords |-> <<"CRM", "ERP">>, videoIds |-> <<"v9">>]
    /\ tasks[1].arg.world.srch[1].ok /\ Len(tasks[1].arg.world.srch[1].videos) = 2
    /\ ~tasks[1].arg.world.srch[2].ok
    /\ tasks[1].ret.calls
          = <<SearchCall("CRM review OR comparison OR alternative OR best", 5),
              CommentsCall("a", 30),
              SearchCall("ERP review OR comparison OR alternative OR best", 5),
              CommentsCall("v9", 50)>>
    /\ Len(tasks[1].ret.result.insights) = 2

(***************************************************************************)
(* trend-spotter.ts: run, with the detail of each insight                  *)
(***************************************************************************)
\* a slip in the channel list: every video's channel is listed
allChannels(videos) == [i \in 1..Len(videos) |-> videos[i].channelTitle]

\* [...new Set(result.videos.map(v => v.channelTitle))]: a Set keeps the
\* order in which its values were first added
distinctChannels(videos) ==
    LET titles == [i \in 1..Len(videos) |-> videos[i].channelTitle]
        first == {i \in 1..Len(titles) : \A j \in 1..(i - 1) : titles[j] # titles[i]}
    IN [n \in 1..Cardinality(first) |-> titles[NthOf(first, n)]]

TitleOf(v) == v.title

\* the two lines of detail
TrendDetail(result, now) ==
    LET recent == recentVideos(result.videos, now)
    IN [channels |-> SliceFirst(distinctChannels(result.videos), 5),
        recent |-> IF Len(recent) > 0
                   THEN [line |-> "Recent", titles |-> Map(SliceFirst(recent, 3), TitleOf)]
                   ELSE [line |-> "No recent videos in the last 2 weeks", titles |-> <<>>]]

\* for (const keyword of params.keywords) try { ... } catch { }
RECURSIVE TrendLoop(_, _, _, _)
TrendLoop(keywords, searches, now, i) ==
    IF i > Len(keywords) THEN <<>>
    ELSE (IF searches[i].ok
          THEN <<TrendInsight(keywords[i], searches[i], now)
                 @@ [detail |-> TrendDetail(searches[i], now)]>>
          ELSE <<>>)
         \o TrendLoop(keywords, searches, now, i + 1)

\* run(params) of the Trend Spotter
TrendSpotterRunOn(params, searches, now) ==
    LET insights == TrendLoop(params.keywords, searches, now, 1)
    IN [agentId |-> "trend-spotter", success |-> TRUE,
        summary |-> <<Len(params.keywords), Len(insights)>>,
        insights |-> insights]

CallTrendSpotter(t, params, searches) ==
    Start(t, Done(NewTask("trend-spotter", "done", [params |-> params, searches |-> searches]),
                  TrendSpotterRunOn(params, searches, clock)))

MaxFound == 6
MaxSpotterCalls == 1

\* the i-th returned video: its own title, its own channel or the channel of the
\* first video, published 13 or 15 days before now
FoundVideos(i, now) ==
    [title : {<<"title", i>>},
     channelTitle : {<<"channel", i>>, <<"channel", 1>>},
     publishedAt : {DateOf(now - 13 * DayMs), DateOf(now - 15 * DayMs)}]

RECURSIVE FoundLists(_, _)
FoundLists(n, now) ==
    IF n = 0 THEN {<<>>}
    ELSE LET shorter == FoundLists(n - 1, now)
         IN shorter \cup {Append(l, v) : l \in {s \in shorter : Len(s) = n - 1},
                                         v \in FoundVideos(n, now)}

TrendSearches(now) ==
    {Failed} \cup
    {[ok |-> TRUE, totalResults |-> 1000, videos |-> l] : l \in FoundLists(MaxFound, now)}

InitSpotter ==
    /\ fileExists = FALSE
    /\ file = DEFAULT_STATE
    /\ writable = TRUE
    /\ defaultState = DEFAULT_STATE
    /\ clock = LoadTime
    /\ heartbeatInterval = 0
    /\ timers = <<>>
    /\ tasks = [t \in Slots |-> IdleTask]
    /\ budget = MaxSpotterCalls

NextSpotter ==
    \/ /\ CanStart(1)
       /\ \E first \in {Failed, [ok |-> TRUE, totalResults |-> 0, videos |-> <<>>]},
             second \in TrendSearches(clock) :
             CallTrendSpotter(1, [keywords |-> <<"CRM", "ERP">>], <<first, second>>)
    \/ Return(1)

SpecSpotter == InitSpotter /\ [][NextSpotter]_vars

\* the positions of the videos whose channel no earlier video has
FirstSeen(videos) ==
    {i \in 1..Len(videos) :
        \A j \in 1..(i - 1) : videos[j].channelTitle # videos[i].channelTitle}

\* the positions of the videos published inside the two-week window
RecentAt(videos, now) ==
    {i \in 1..Len(videos) : videos[i].publishedAt.valid /\ Age(videos[i], now) < 14 * DayMs}

\* C39: the Trend Spotter emits exactly one trend insight for each keyword whose
\* search succeeds, also with no video or no recent video (then with the
\* no-recent-videos line), and none for a keyword whose search fails; the
\* channels listed are the distinct channel titles of the returned videos in
\* first-seen order, at most 5; the recent titles listed are the first recent
\* videos' titles, at most 3
C39_TrendInsightPerKeyword ==
    \A t \in Slots :
       tasks[t].op = "trend-spotter"
       => LET keywords == tasks[t].arg.params.keywords
              searches == tasks[t].arg.searches
              insights == tasks[t].ret.insights
              Mine(i) == LET About(x) == x.source = keywords[i]
                         IN Filter(insights, About)
          IN /\ tasks[t].pc = "done" /\ tasks[t].ret.success
             /\ insights = Mine(1) \o Mine(2)
             /\ \A i \in 1..Len(keywords) :
                   IF ~searches[i].ok THEN Mine(i) = <<>>
                   ELSE LET videos == searches[i].videos
                            seen == FirstSeen(videos)
                            recent == RecentAt(videos, clock)
                        IN /\ Len(Mine(i)) = 1
                           /\ Mine(i)[1].type = "trend"
                           /\ Len(Mine(i)[1].detail.channels) = Min(Cardinality(seen), 5)
                           /\ \A n \in 1..Len(Mine(i)[1].detail.channels) :
                                 Mine(i)[1].detail.channels[n]
                                    = videos[NthOf(seen, n)].channelTitle
                           /\ Len(Mine(i)[1].detail.recent.titles)
                                 = Min(Cardinality(recent), 3)
                           /\ \A n \in 1..Len(Mine(i)[1].detail.recent.titles) :
                                 Mine(i)[1].detail.recent.titles[n]
                                    = videos[NthOf(recent, n)].title
                           /\ (Mine(i)[1].detail.recent.line
                                  = "No recent videos in the last 2 weeks")
                              <=> recent = {}

\* C39 witness: the first search returned no video and the second six videos
\* of six channels, four of them recent; the run has emitted two insights, the
\* first with the no-recent-videos line, the second with five channels and
\* three recent titles
C39_Witness ==
    /\ tasks[1].op = "trend-spotter" /\ tasks[1].pc = "done"
    /\ tasks[1].arg.searches[1].ok /\ tasks[1].arg.searches[2].ok
    /\ Cardinality(FirstSeen(tasks[1].arg.searches[2].videos)) = 6
    /\ Cardinality(RecentAt(tasks[1].arg.searches[2].videos, clock)) = 4
    /\ Len(tasks[1].ret.insights) = 2
    /\ tasks[1].ret.insights[1].detail.recent.line = "No recent videos in the last 2 weeks"
    /\ tasks[1].ret.insights[1].detail.channels = <<>>
    /\ Len(tasks[1].ret.insights[2].detail.channels) = 5
    /\ Len(tasks[1].ret.insights[2].detail.recent.titles) = 3

(***************************************************************************)
(* competitor-monitor.ts: run, with the uploads of each channel            *)
(***************************************************************************)
\* new Date(Date.now() - 7 * 24 * 60 * 60 * 1000)
weekAgo(now) == DateOf(now - 7 * 24 * 60 * 60 * 1000)

\* a slip in the comparison: an upload at the boundary instant counts as recent
recentUploadsInclusive(videos, now) ==
    LET Recent(v) == LaterThanOrAt(v.publishedAt, weekAgo(now))
    IN Filter(videos, Recent)

\* result.videos.filter(v => new Date(v.publishedAt) > weekAgo)
recentUploads(videos, now) ==
    LET Recent(v) == LaterThan(v.publishedAt, weekAgo(now))
    IN Filter(videos, Recent)

\* `- "${v.title}" (${v.publishedAt.split("T")[0]})`
UploadLine(v) == [title |-> v.title, publishedAt |-> v.publishedAt]

\* `- "${v.title}" by ${v.channelTitle}`
FoundLine(v) == [title |-> v.title, channelTitle |-> v.channelTitle]

\* the body of the channel loop
MoveOfChannel(channelId, fetch, now) ==
    IF ~fetch.ok THEN <<>>
    ELSE LET recent == recentUploads(fetch.videos, now)
         IN IF Len(recent) > 0
            THEN <<[type |-> "competitor_move",
                    title |-> [channelTitle |-> fetch.channelTitle, count |-> Len(recent)],
                    detail |-> Map(recent, UploadLine),
                    source |-> [channelId |-> channelId]]>>
            ELSE <<>>

\* the body of the keyword loop
MoveOfKeyword(keyword, search) ==
    IF search.ok /\ Len(search.videos) > 0
    THEN <<[type |-> "competitor_move",
            title |-> [keyword |-> keyword, total |-> search.totalResults],
            detail |-> Map(SliceFirst(search.videos, 3), FoundLine),
            source |-> [query |-> keyword]]>>
    ELSE <<>>

RECURSIVE ChannelLoop(_, _, _, _)
ChannelLoop(channelIds, fetches, now, i) ==
    IF i > Len(channelIds) THEN <<>>
    ELSE MoveOfChannel(channelIds[i], fetches[i], now)
         \o ChannelLoop(channelIds, fetches, now, i + 1)

RECURSIVE MoveKeywordLoop(_, _, _)
MoveKeywordLoop(keywords, searches, i) ==
    IF i > Len(keywords) THEN <<>>
    ELSE MoveOfKeyword(keywords[i], searches[i]) \o MoveKeywordLoop(keywords, searches, i + 1)

\* run(params) of the Competitor Monitor
CompetitorMonitorRunOn(params, world, now) ==
    LET channelIds == ListOr(params, "channelIds")
        keywords == ListOr(params, "keywords")
        insights == ChannelLoop(channelIds, world.chan, now, 1)
                    \o MoveKeywordLoop(keywords, world.srch, 1)
    IN [agentId |-> "competitor-monitor", success |-> TRUE,
        summary |-> <<Len(channelIds), Len(keywords), Len(insights)>>,
        insights |-> insights]

CallCompetitorMonitor(t, params, world) ==
    Start(t, Done(NewTask("competitor-monitor", "done", [params |-> params, world |-> world]),
                  CompetitorMonitorRunOn(params, world, clock)))

MaxUploads == 3
MaxMonitorCalls == 1

\* publish instants 8, 7 and 6 days before now, one millisecond to either side
\* of the boundary, and an invalid date
UploadDates(now) ==
    {DateOf(now - 8 * DayMs), DateOf(now - 7 * DayMs - 1), DateOf(now - 7 * DayMs),
     DateOf(now - 7 * DayMs + 1), DateOf(now - 6 * DayMs), InvalidDate}

UploadLists(now) ==
    UNION {{[i \in 1..n |-> [title |-> <<"upload", i>>, publishedAt |-> dates[i]]] :
               dates \in [1..n -> UploadDates(now)]} : n \in 0..MaxUploads}

ChannelFetches(now) ==
    {Failed} \cup
    {[ok |-> TRUE, channelTitle |-> "Acme TV", videos |-> l] : l \in UploadLists(now)}

MonitorSearches ==
    {Failed,
     [ok |-> TRUE, totalResults |-> 0, videos |-> <<>>],
     [ok |-> TRUE, totalResults |-> 40,
      videos |-> <<[title |-> "Acme tested", channelTitle |-> "Reviews"]>>]}

MonitorParams ==
    {[channelIds |-> <<"UC1", "UC2">>, keywords |-> <<"Acme review">>],
     [channelIds |-> <<"UC1", "UC2">>],
     [keywords |-> <<"Acme review">>]}

MonitorWorlds(params, now) ==
    {[chan |-> c, srch |-> s] :
        c \in IF "channelIds" \in DOMAIN params
              THEN {<<first, second>> :
                       first \in {Failed,
                                  [ok |-> TRUE, channelTitle |-> "Bolt TV",
                                   videos |-> <<[title |-> <<"upload", 1>>,
                                                 publishedAt |-> DateOf(now - DayMs)]>>]},
                       second \in ChannelFetches(now)}
              ELSE {<<>>},
        s \in IF "keywords" \in DOMAIN params
              THEN {<<x>> : x \in MonitorSearches}
              ELSE {<<>>}}

InitMonitor ==
    /\ fileExists = FALSE
    /\ file = DEFAULT_STATE
    /\ writable = TRUE
    /\ defaultState = DEFAULT_STATE
    /\ clock \in {LoadTime, DayMs}
    /\ heartbeatInterval = 0
    /\ timers = <<>>
    /\ tasks = [t \in Slots |-> IdleTask]
    /\ budget = MaxMonitorCalls

NextMonitor ==
    \/ /\ CanStart(1)
       /\ \E params \in MonitorParams : \E world \in MonitorWorlds(params, clock) :
             CallCompetitorMonitor(1, params, world)
    \/ Return(1)

SpecMonitor == InitMonitor /\ [][NextMonitor]_vars

\* the positions of the uploads published less than 7 x 24 hours before now
InWeek(videos, now) ==
    {k \in 1..Len(videos) : videos[k].publishedAt.valid /\ Age(videos[k], now) < 7 * DayMs}

\* C40: for a tracked channel whose fetch succeeds the Competitor Monitor emits
\* one competitor_move insight iff an upload was published strictly later than
\* now minus 7 x 24 hours; the insight counts and lists exactly those uploads,
\* in the order fetched; a channel with no such upload, or whose fetch fails,
\* gets no insight
C40_ChannelRecencyWindow ==
    \A t \in Slots :
       tasks[t].op = "competitor-monitor"
       => LET channelIds == ListOr(tasks[t].arg.params, "channelIds")
              fetches == tasks[t].arg.world.chan
              insights == tasks[t].ret.insights
              Mine(i) == LET About(x) == /\ "channelId" \in DOMAIN x.source
                                         /\ x.source.channelId = channelIds[i]
                         IN Filter(insights, About)
          IN \A i \in 1..Len(channelIds) :
                IF ~fetches[i].ok THEN Mine(i) = <<>>
                ELSE LET videos == fetches[i].videos
                         window == InWeek(videos, clock)
                     IN IF window = {} THEN Mine(i) = <<>>
                        ELSE /\ Len(Mine(i)) = 1
                             /\ Mine(i)[1].type = "competitor_move"
                             /\ Mine(i)[1].title.count = Cardinality(window)
                             /\ Len(Mine(i)[1].detail) = Cardinality(window)
                             /\ \A n \in 1..Cardinality(window) :
                                   Mine(i)[1].detail[n].title
                                      = videos[NthOf(window, n)].title

\* C40 witness: the first channel's fetch failed; the second returned an upload
\* published exactly 7 days ago, one a millisecond later and one 6 days ago,
\* and the run emitted one insight for it that counts and lists the last two
C40_Witness ==
    /\ tasks[1].op = "competitor-monitor" /\ tasks[1].pc = "done"
    /\ "channelIds" \in DOMAIN tasks[1].arg.params
    /\ ~tasks[1].arg.world.chan[1].ok
    /\ tasks[1].arg.world.chan[2].ok
    /\ LET videos == tasks[1].arg.world.chan[2].videos
           insights == tasks[1].ret.insights
       IN /\ Len(videos) = 3
          /\ Age(videos[1], clock) = 7 * DayMs
          /\ Age(videos[2], clock) = 7 * DayMs - 1
          /\ Age(videos[3], clock) = 6 * DayMs
          /\ Len(insights) >= 1
          /\ insights[1].source = [channelId |-> "UC2"]
          /\ insights[1].title.count = 2
          /\ insights[1].detail[1].title = <<"upload", 2>>

====
